---------------------------- MODULE Spec2Model ----------------------------
(***************************************************************************)
(* Model of the description-composition engine of AssistantVinted          *)
(* (src/domain/description_builder.py): the normalisation helpers and the  *)
(* two composers, as pure operators, driven by a state machine whose       *)
(* actions are the calls of these functions on inputs drawn from small     *)
(* sets.                                                                   *)
(*                                                                         *)
(* Text.  A Python str is a sequence of characters; a character is a       *)
(* one-character string for printable ASCII, "\t", "\n" and "\r", and the  *)
(* string "U+<HEX>" for any other code point.  Str("...") builds such a    *)
(* sequence from a literal in which {HEX} stands for the code point U+HEX. *)
(* The literals of description_builder.py are copied code point by code    *)
(* point: the file holds, for instance, U+221A U+00A9 where an "e acute"   *)
(* was meant, and the model holds the same.                                *)
(*                                                                         *)
(* Values.  A Python value is a record tagged by its type:                 *)
(*   [t |-> "none"]                                                        *)
(*   [t |-> "str",   s |-> <<chars>>]                                      *)
(*   [t |-> "int",   n |-> integer]                                        *)
(*   [t |-> "long",  neg |-> sign, d |-> <<digits>>]  an int of ten digits *)
(*                                                    or more              *)
(*   [t |-> "float", k |-> "fin" | "-0" | "nan" | "inf" | "-inf",          *)
(*                   m |-> tenths]                                         *)
(*   [t |-> "list",  l |-> <<values>>]                                     *)
(*   [t |-> "dict",  d |-> [key |-> value]]                                *)
(* A finite float is a decimal with one fractional digit, held as its      *)
(* number of tenths (98.9 is m = 989); the kind "-0" is the negative zero. *)
(***************************************************************************)
EXTENDS Integers, Sequences, FiniteSets, TLC

VARIABLES
    call,      \* name of the function called last ("none" before any call)
    args,      \* the arguments of that call, a record
    result,    \* what the call returned, a Python value, or Raised
    adds,      \* hashtag builders: the values passed to the successive add() calls
    tokens     \* hashtag builders: the token list when the builder returns or raises

vars == <<call, args, result, adds, tokens>>

---------------------------------------------------------------------------
(* Python values *)

None == [t |-> "none"]
PStr(s) == [t |-> "str", s |-> s]
PInt(n) == [t |-> "int", n |-> n]
\* An int of ten digits or more, beyond the integers of TLC: its sign and the
\* text of its decimal digits.
PLong(neg, d) == [t |-> "long", neg |-> neg, d |-> d]
PFloat(m) == [t |-> "float", k |-> "fin", m |-> m]
PNegZero == [t |-> "float", k |-> "-0", m |-> 0]
PNaN == [t |-> "float", k |-> "nan", m |-> 0]
PInf == [t |-> "float", k |-> "inf", m |-> 0]
PList(l) == [t |-> "list", l |-> l]
PDict(d) == [t |-> "dict", d |-> d]
\* An exception leaving the function.
Raised == [t |-> "raise"]

\* bool(value), as `if value:` and `a or b` evaluate it.
Truthy(v) ==
    CASE v.t = "none" -> FALSE
      [] v.t = "str" -> Len(v.s) > 0
      [] v.t = "int" -> v.n # 0
      [] v.t = "long" -> TRUE
      [] v.t = "float" -> ~(v.k \in {"fin", "-0"} /\ v.m = 0)
      [] v.t = "list" -> Len(v.l) > 0
      [] v.t = "dict" -> DOMAIN v.d # {}
      [] OTHER -> TRUE

\* `a or b`
Or(a, b) == IF Truthy(a) THEN a ELSE b

---------------------------------------------------------------------------
(* Text *)

SetMin(S) == CHOOSE x \in S : \A y \in S : x <= y
SetMax(S) == CHOOSE x \in S : \A y \in S : x >= y

\* Literals are written in ASCII: a character stands for itself and a group
\* {HEX} for the code point U+HEX.
Ch(lit, i) == SubSeq(lit, i, i)

\* Whether position i of a literal lies in a group {HEX}, after its "{".
InGroup(lit, i) ==
    \E o \in 1..(i - 1) : Ch(lit, o) = "{" /\ \A k \in o..(i - 1) : Ch(lit, k) # "}"

\* The character that starts at position i: "U+HEX" for a group.
CharAt(lit, i) ==
    IF Ch(lit, i) = "{"
    THEN "U+" \o SubSeq(lit, i + 1, SetMin({e \in i..Len(lit) : Ch(lit, e) = "}"}) - 1)
    ELSE Ch(lit, i)

\* The k-th smallest element of a set of numbers.
Nth(S, k) == CHOOSE i \in S : Cardinality({j \in S : j <= i}) = k

CharsAt(lit, starts) == [k \in 1..Cardinality(starts) |-> CharAt(lit, Nth(starts, k))]

\* The character sequence of a literal.
Str(lit) == CharsAt(lit, {i \in 1..Len(lit) : ~InGroup(lit, i)})

Digits == "0123456789"

\* The code point n as a character of the model: "U+" and its hexadecimal
\* digits, in capitals and without leading zero.
HexDigits == "0123456789ABCDEF"
RECURSIVE Hex(_)
Hex(n) ==
    IF n < 16 THEN SubSeq(HexDigits, n + 1, n + 1)
    ELSE Hex(n \div 16) \o SubSeq(HexDigits, (n % 16) + 1, (n % 16) + 1)
Code(n) == "U+" \o Hex(n)

\* Printable ASCII, from the space (code point 32) to the tilde (126), with a
\* space in the place of the grave accent (96), which is written "U+60".
Ascii ==
    " !\"#$%&'()*+,-./0123456789:;<=>?@ABCDEFGHIJKLMNOPQRSTUVWXYZ[\\]^_ abcdefghijklmnopqrstuvwxyz{|}~"

\* The character of the code point n: itself in printable ASCII and for the
\* tabulation, the line feed and the carriage return, else "U+HEX".
Char(n) ==
    IF n \in 32..126 /\ n # 96 THEN SubSeq(Ascii, n - 31, n - 31)
    ELSE IF n = 9 THEN "\t"
    ELSE IF n = 10 THEN "\n"
    ELSE IF n = 13 THEN "\r"
    ELSE Code(n)

\* The value of a string of hexadecimal digits.
RECURSIVE HexValue(_)
HexValue(h) ==
    IF Len(h) = 0 THEN 0
    ELSE 16 * HexValue(SubSeq(h, 1, Len(h) - 1))
            + (CHOOSE d \in 0..15 :
                  SubSeq(HexDigits, d + 1, d + 1) = SubSeq(h, Len(h), Len(h)))

\* The code point of a character.
CodeOf(c) ==
    IF Len(c) > 1 THEN HexValue(SubSeq(c, 3, Len(c)))
    ELSE IF c = "\t" THEN 9
    ELSE IF c = "\n" THEN 10
    ELSE IF c = "\r" THEN 13
    ELSE 31 + (CHOOSE i \in (1..95) \ {65} : SubSeq(Ascii, i, i) = c)

---------------------------------------------------------------------------
(* The character tables of the interpreter (CPython 3.11, Unicode 14.0.0),  *)
(* on code points.                                                          *)

\* A table is a string of numbers of six hexadecimal digits, a space behind each
\* of them.  The k-th number of a table:
Entry(table, k) == HexValue(SubSeq(table, 7 * k - 6, 7 * k - 1))

\* The rows of a table that holds `width` numbers a row.
Rows(table, width) ==
    {[i \in 1..width |-> Entry(table, width * (k - 1) + i)] :
        k \in 1..(Len(table) \div (7 * width))}

\* str.lower() on one character, for the characters it changes into one
\* character.  The row <<first, last, step, lower>> stands for the code points
\* first, first + step, ... last; the lower case of first is `lower`, and that
\* of the code point n of the row is n + lower - first.
LowerRuns ==
    Rows("000041 00005A 000001 000061 0000C0 0000D6 000001 0000E0 0000D8 0000DE 000001 0000F8 000100 00012E 000002 000101 000132 000136 000002 000133 000139 000147 000002 00013A 00014A 000176 000002 00014B 000178 000178 000001 0000FF 000179 00017D 000002 00017A 000181 000181 000001 000253 000182 000184 000002 000183 000186 000186 000001 000254 000187 000187 000001 000188 000189 00018A 000001 000256 00018B 00018B 000001 00018C 00018E 00018E 000001 0001DD 00018F 00018F 000001 000259 000190 000190 000001 00025B 000191 000191 000001 000192 000193 000193 000001 000260 000194 000194 000001 000263 000196 000196 000001 000269 000197 000197 000001 000268 000198 000198 000001 000199 00019C 00019C 000001 00026F 00019D 00019D 000001 000272 00019F 00019F 000001 000275 0001A0 0001A4 000002 0001A1 0001A6 0001A6 000001 000280 0001A7 0001A7 000001 0001A8 0001A9 0001A9 000001 000283 0001AC 0001AC 000001 0001AD 0001AE 0001AE 000001 000288 0001AF 0001AF 000001 0001B0 0001B1 0001B2 000001 00028A 0001B3 0001B5 000002 0001B4 0001B7 0001B7 000001 000292 0001B8 0001B8 000001 0001B9 0001BC 0001BC 000001 0001BD 0001C4 0001C4 000001 0001C6 0001C5 0001C5 000001 0001C6 0001C7 0001C7 000001 0001C9 0001C8 0001C8 000001 0001C9 0001CA 0001CA 000001 0001CC 0001CB 0001DB 000002 0001CC 0001DE 0001EE 000002 0001DF 0001F1 0001F1 000001 0001F3 0001F2 0001F4 000002 0001F3 0001F6 0001F6 000001 000195 0001F7 0001F7 000001 0001BF 0001F8 00021E 000002 0001F9 000220 000220 000001 00019E 000222 000232 000002 000223 00023A 00023A 000001 002C65 00023B 00023B 000001 00023C 00023D 00023D 000001 00019A 00023E 00023E 000001 002C66 000241 000241 000001 000242 000243 000243 000001 000180 000244 000244 000001 000289 000245 000245 000001 00028C 000246 00024E 000002 000247 000370 000372 000002 000371 000376 000376 000001 000377 00037F 00037F 000001 0003F3 000386 000386 000001 0003AC 000388 00038A 000001 0003AD 00038C 00038C 000001 0003CC 00038E 00038F 000001 0003CD 000391 0003A1 000001 0003B1 0003A3 0003AB 000001 0003C3 0003CF 0003CF 000001 0003D7 0003D8 0003EE 000002 0003D9 0003F4 0003F4 000001 0003B8 0003F7 0003F7 000001 0003F8 0003F9 0003F9 000001 0003F2 0003FA 0003FA 000001 0003FB 0003FD 0003FF 000001 00037B 000400 00040F 000001 000450 000410 00042F 000001 000430 000460 000480 000002 000461 00048A 0004BE 000002 00048B 0004C0 0004C0 000001 0004CF 0004C1 0004CD 000002 0004C2 0004D0 00052E 000002 0004D1 000531 000556 000001 000561 0010A0 0010C5 000001 002D00 0010C7 0010C7 000001 002D27 0010CD 0010CD 000001 002D2D 0013A0 0013EF 000001 00AB70 0013F0 0013F5 000001 0013F8 001C90 001CBA 000001 0010D0 001CBD 001CBF 000001 0010FD 001E00 001E94 000002 001E01 001E9E 001E9E 000001 0000DF 001EA0 001EFE 000002 001EA1 001F08 001F0F 000001 001F00 001F18 001F1D 000001 001F10 001F28 001F2F 000001 001F20 001F38 001F3F 000001 001F30 001F48 001F4D 000001 001F40 001F59 001F5F 000002 001F51 001F68 001F6F 000001 001F60 001F88 001F8F 000001 001F80 001F98 001F9F 000001 001F90 001FA8 001FAF 000001 001FA0 001FB8 001FB9 000001 001FB0 001FBA 001FBB 000001 001F70 001FBC 001FBC 000001 001FB3 001FC8 001FCB 000001 001F72 001FCC 001FCC 000001 001FC3 001FD8 001FD9 000001 001FD0 001FDA 001FDB 000001 001F76 001FE8 001FE9 000001 001FE0 001FEA 001FEB 000001 001F7A 001FEC 001FEC 000001 001FE5 001FF8 001FF9 000001 001F78 001FFA 001FFB 000001 001F7C 001FFC 001FFC 000001 001FF3 002126 002126 000001 0003C9 00212A 00212A 000001 00006B 00212B 00212B 000001 0000E5 002132 002132 000001 00214E 002160 00216F 000001 002170 002183 002183 000001 002184 0024B6 0024CF 000001 0024D0 002C00 002C2F 000001 002C30 002C60 002C60 000001 002C61 002C62 002C62 000001 00026B 002C63 002C63 000001 001D7D 002C64 002C64 000001 00027D 002C67 002C6B 000002 002C68 002C6D 002C6D 000001 000251 002C6E 002C6E 000001 000271 002C6F 002C6F 000001 000250 002C70 002C70 000001 000252 002C72 002C72 000001 002C73 002C75 002C75 000001 002C76 002C7E 002C7F 000001 00023F 002C80 002CE2 000002 002C81 002CEB 002CED 000002 002CEC 002CF2 002CF2 000001 002CF3 00A640 00A66C 000002 00A641 00A680 00A69A 000002 00A681 00A722 00A72E 000002 00A723 00A732 00A76E 000002 00A733 00A779 00A77B 000002 00A77A 00A77D 00A77D 000001 001D79 00A77E 00A786 000002 00A77F 00A78B 00A78B 000001 00A78C 00A78D 00A78D 000001 000265 00A790 00A792 000002 00A791 00A796 00A7A8 000002 00A797 00A7AA 00A7AA 000001 000266 00A7AB 00A7AB 000001 00025C 00A7AC 00A7AC 000001 000261 00A7AD 00A7AD 000001 00026C 00A7AE 00A7AE 000001 00026A 00A7B0 00A7B0 000001 00029E 00A7B1 00A7B1 000001 000287 00A7B2 00A7B2 000001 00029D 00A7B3 00A7B3 000001 00AB53 00A7B4 00A7C2 000002 00A7B5 00A7C4 00A7C4 000001 00A794 00A7C5 00A7C5 000001 000282 00A7C6 00A7C6 000001 001D8E 00A7C7 00A7C9 000002 00A7C8 00A7D0 00A7D0 000001 00A7D1 00A7D6 00A7D8 000002 00A7D7 00A7F5 00A7F5 000001 00A7F6 00FF21 00FF3A 000001 00FF41 010400 010427 000001 010428 0104B0 0104D3 000001 0104D8 010570 010594 000002 010597 010571 010579 000002 010598 01057D 010589 000002 0105A4 01058D 010591 000002 0105B4 010595 010595 000001 0105BC 010C80 010CB2 000001 010CC0 0118A0 0118BF 000001 0118C0 016E40 016E5F 000001 016E60 01E900 01E921 000001 01E922 ", 4)

\* The title case of one character, which str.capitalize() gives the first
\* character, for the characters it changes into one character: rows
\* <<first, last, step, title>>.
TitleRuns ==
    Rows("000061 00007A 000001 000041 0000B5 0000B5 000001 00039C 0000E0 0000F6 000001 0000C0 0000F8 0000FE 000001 0000D8 0000FF 0000FF 000001 000178 000101 00012F 000002 000100 000131 000131 000001 000049 000133 000137 000002 000132 00013A 000148 000002 000139 00014B 000177 000002 00014A 00017A 00017E 000002 000179 00017F 00017F 000001 000053 000180 000180 000001 000243 000183 000185 000002 000182 000188 000188 000001 000187 00018C 00018C 000001 00018B 000192 000192 000001 000191 000195 000195 000001 0001F6 000199 000199 000001 000198 00019A 00019A 000001 00023D 00019E 00019E 000001 000220 0001A1 0001A5 000002 0001A0 0001A8 0001A8 000001 0001A7 0001AD 0001AD 000001 0001AC 0001B0 0001B0 000001 0001AF 0001B4 0001B6 000002 0001B3 0001B9 0001B9 000001 0001B8 0001BD 0001BD 000001 0001BC 0001BF 0001BF 000001 0001F7 0001C4 0001C4 000001 0001C5 0001C6 0001C6 000001 0001C5 0001C7 0001C7 000001 0001C8 0001C9 0001C9 000001 0001C8 0001CA 0001CA 000001 0001CB 0001CC 0001DC 000002 0001CB 0001DD 0001DD 000001 00018E 0001DF 0001EF 000002 0001DE 0001F1 0001F1 000001 0001F2 0001F3 0001F5 000002 0001F2 0001F9 00021F 000002 0001F8 000223 000233 000002 000222 00023C 00023C 000001 00023B 00023F 000240 000001 002C7E 000242 000242 000001 000241 000247 00024F 000002 000246 000250 000250 000001 002C6F 000251 000251 000001 002C6D 000252 000252 000001 002C70 000253 000253 000001 000181 000254 000254 000001 000186 000256 000257 000001 000189 000259 000259 000001 00018F 00025B 00025B 000001 000190 00025C 00025C 000001 00A7AB 000260 000260 000001 000193 000261 000261 000001 00A7AC 000263 000263 000001 000194 000265 000265 000001 00A78D 000266 000266 000001 00A7AA 000268 000268 000001 000197 000269 000269 000001 000196 00026A 00026A 000001 00A7AE 00026B 00026B 000001 002C62 00026C 00026C 000001 00A7AD 00026F 00026F 000001 00019C 000271 000271 000001 002C6E 000272 000272 000001 00019D 000275 000275 000001 00019F 00027D 00027D 000001 002C64 000280 000280 000001 0001A6 000282 000282 000001 00A7C5 000283 000283 000001 0001A9 000287 000287 000001 00A7B1 000288 000288 000001 0001AE 000289 000289 000001 000244 00028A 00028B 000001 0001B1 00028C 00028C 000001 000245 000292 000292 000001 0001B7 00029D 00029D 000001 00A7B2 00029E 00029E 000001 00A7B0 000345 000345 000001 000399 000371 000373 000002 000370 000377 000377 000001 000376 00037B 00037D 000001 0003FD 0003AC 0003AC 000001 000386 0003AD 0003AF 000001 000388 0003B1 0003C1 000001 000391 0003C2 0003C2 000001 0003A3 0003C3 0003CB 000001 0003A3 0003CC 0003CC 000001 00038C 0003CD 0003CE 000001 00038E 0003D0 0003D0 000001 000392 0003D1 0003D1 000001 000398 0003D5 0003D5 000001 0003A6 0003D6 0003D6 000001 0003A0 0003D7 0003D7 000001 0003CF 0003D9 0003EF 000002 0003D8 0003F0 0003F0 000001 00039A 0003F1 0003F1 000001 0003A1 0003F2 0003F2 000001 0003F9 0003F3 0003F3 000001 00037F 0003F5 0003F5 000001 000395 0003F8 0003F8 000001 0003F7 0003FB 0003FB 000001 0003FA 000430 00044F 000001 000410 000450 00045F 000001 000400 000461 000481 000002 000460 00048B 0004BF 000002 00048A 0004C2 0004CE 000002 0004C1 0004CF 0004CF 000001 0004C0 0004D1 00052F 000002 0004D0 000561 000586 000001 000531 0013F8 0013FD 000001 0013F0 001C80 001C80 000001 000412 001C81 001C81 000001 000414 001C82 001C82 000001 00041E 001C83 001C84 000001 000421 001C85 001C85 000001 000422 001C86 001C86 000001 00042A 001C87 001C87 000001 000462 001C88 001C88 000001 00A64A 001D79 001D79 000001 00A77D 001D7D 001D7D 000001 002C63 001D8E 001D8E 000001 00A7C6 001E01 001E95 000002 001E00 001E9B 001E9B 000001 001E60 001EA1 001EFF 000002 001EA0 001F00 001F07 000001 001F08 001F10 001F15 000001 001F18 001F20 001F27 000001 001F28 001F30 001F37 000001 001F38 001F40 001F45 000001 001F48 001F51 001F57 000002 001F59 001F60 001F67 000001 001F68 001F70 001F71 000001 001FBA 001F72 001F75 000001 001FC8 001F76 001F77 000001 001FDA 001F78 001F79 000001 001FF8 001F7A 001F7B 000001 001FEA 001F7C 001F7D 000001 001FFA 001F80 001F87 000001 001F88 001F90 001F97 000001 001F98 001FA0 001FA7 000001 001FA8 001FB0 001FB1 000001 001FB8 001FB3 001FB3 000001 001FBC 001FBE 001FBE 000001 000399 001FC3 001FC3 000001 001FCC 001FD0 001FD1 000001 001FD8 001FE0 001FE1 000001 001FE8 001FE5 001FE5 000001 001FEC 001FF3 001FF3 000001 001FFC 00214E 00214E 000001 002132 002170 00217F 000001 002160 002184 002184 000001 002183 0024D0 0024E9 000001 0024B6 002C30 002C5F 000001 002C00 002C61 002C61 000001 002C60 002C65 002C65 000001 00023A 002C66 002C66 000001 00023E 002C68 002C6C 000002 002C67 002C73 002C73 000001 002C72 002C76 002C76 000001 002C75 002C81 002CE3 000002 002C80 002CEC 002CEE 000002 002CEB 002CF3 002CF3 000001 002CF2 002D00 002D25 000001 0010A0 002D27 002D27 000001 0010C7 002D2D 002D2D 000001 0010CD 00A641 00A66D 000002 00A640 00A681 00A69B 000002 00A680 00A723 00A72F 000002 00A722 00A733 00A76F 000002 00A732 00A77A 00A77C 000002 00A779 00A77F 00A787 000002 00A77E 00A78C 00A78C 000001 00A78B 00A791 00A793 000002 00A790 00A794 00A794 000001 00A7C4 00A797 00A7A9 000002 00A796 00A7B5 00A7C3 000002 00A7B4 00A7C8 00A7CA 000002 00A7C7 00A7D1 00A7D1 000001 00A7D0 00A7D7 00A7D9 000002 00A7D6 00A7F6 00A7F6 000001 00A7F5 00AB53 00AB53 000001 00A7B3 00AB70 00ABBF 000001 0013A0 00FF41 00FF5A 000001 00FF21 010428 01044F 000001 010400 0104D8 0104FB 000001 0104B0 010597 0105BB 000002 010570 010598 0105A0 000002 010571 0105A4 0105B0 000002 01057D 0105B4 0105B8 000002 01058D 0105BC 0105BC 000001 010595 010CC0 010CF2 000001 010C80 0118C0 0118DF 000001 0118A0 016E60 016E7F 000001 016E40 01E922 01E943 000001 01E900 ", 4)

\* The characters whose title case is two or three characters: rows
\* <<n, a, b, c>>, c = 0 when they are two.
TitleLong ==
    Rows("0000DF 000053 000073 000000 000149 0002BC 00004E 000000 0001F0 00004A 00030C 000000 000390 000399 000308 000301 0003B0 0003A5 000308 000301 000587 000535 000582 000000 001E96 000048 000331 000000 001E97 000054 000308 000000 001E98 000057 00030A 000000 001E99 000059 00030A 000000 001E9A 000041 0002BE 000000 001F50 0003A5 000313 000000 001F52 0003A5 000313 000300 001F54 0003A5 000313 000301 001F56 0003A5 000313 000342 001FB2 001FBA 000345 000000 001FB4 000386 000345 000000 001FB6 000391 000342 000000 001FB7 000391 000342 000345 001FC2 001FCA 000345 000000 001FC4 000389 000345 000000 001FC6 000397 000342 000000 001FC7 000397 000342 000345 001FD2 000399 000308 000300 001FD3 000399 000308 000301 001FD6 000399 000342 000000 001FD7 000399 000308 000342 001FE2 0003A5 000308 000300 001FE3 0003A5 000308 000301 001FE4 0003A1 000313 000000 001FE6 0003A5 000342 000000 001FE7 0003A5 000308 000342 001FF2 001FFA 000345 000000 001FF4 00038F 000345 000000 001FF6 0003A9 000342 000000 001FF7 0003A9 000342 000345 00FB00 000046 000066 000000 00FB01 000046 000069 000000 00FB02 000046 00006C 000000 00FB03 000046 000066 000069 00FB04 000046 000066 00006C 00FB05 000053 000074 000000 00FB06 000053 000074 000000 00FB13 000544 000576 000000 00FB14 000544 000565 000000 00FB15 000544 00056B 000000 00FB16 00054E 000576 000000 00FB17 000544 00056D 000000 ", 4)

\* The decimal digits (those \d matches and float() reads) come in runs of
\* ten, 0 to 9: rows <<zero>>, the code point of the zero of each run.
DecimalZeros ==
    Rows("000030 000660 0006F0 0007C0 000966 0009E6 000A66 000AE6 000B66 000BE6 000C66 000CE6 000D66 000DE6 000E50 000ED0 000F20 001040 001090 0017E0 001810 001946 0019D0 001A80 001A90 001B50 001BB0 001C40 001C50 00A620 00A8D0 00A900 00A9D0 00A9F0 00AA50 00ABF0 00FF10 0104A0 010D30 011066 0110F0 011136 0111D0 0112F0 011450 0114D0 011650 0116C0 011730 0118E0 011950 011C50 011D50 011DA0 016A60 016AC0 016B50 01D7CE 01D7D8 01D7E2 01D7EC 01D7F6 01E140 01E2F0 01E950 01FBF0 ", 1)

\* The characters str.isdigit() holds for that are no decimal digit
\* (superscripts, circled digits, ...): rows <<first, last>>.
OtherDigitRuns ==
    Rows("0000B2 0000B3 0000B9 0000B9 001369 001371 0019DA 0019DA 002070 002070 002074 002079 002080 002089 002460 002468 002474 00247C 002488 002490 0024EA 0024EA 0024F5 0024FD 0024FF 0024FF 002776 00277E 002780 002788 00278A 002792 010A40 010A43 010E60 010E68 011052 01105A 01F100 01F10A ", 2)

\* The code points str.isprintable() does not hold for, which repr() writes
\* as an escape: rows <<first, last>>.
NonPrintableRuns ==
    Rows("000000 00001F 00007F 0000A0 0000AD 0000AD 000378 000379 000380 000383 00038B 00038B 00038D 00038D 0003A2 0003A2 000530 000530 000557 000558 00058B 00058C 000590 000590 0005C8 0005CF 0005EB 0005EE 0005F5 000605 00061C 00061C 0006DD 0006DD 00070E 00070F 00074B 00074C 0007B2 0007BF 0007FB 0007FC 00082E 00082F 00083F 00083F 00085C 00085D 00085F 00085F 00086B 00086F 00088F 000897 0008E2 0008E2 000984 000984 00098D 00098E 000991 000992 0009A9 0009A9 0009B1 0009B1 0009B3 0009B5 0009BA 0009BB 0009C5 0009C6 0009C9 0009CA 0009CF 0009D6 0009D8 0009DB 0009DE 0009DE 0009E4 0009E5 0009FF 000A00 000A04 000A04 000A0B 000A0E 000A11 000A12 000A29 000A29 000A31 000A31 000A34 000A34 000A37 000A37 000A3A 000A3B 000A3D 000A3D 000A43 000A46 000A49 000A4A 000A4E 000A50 000A52 000A58 000A5D 000A5D 000A5F 000A65 000A77 000A80 000A84 000A84 000A8E 000A8E 000A92 000A92 000AA9 000AA9 000AB1 000AB1 000AB4 000AB4 000ABA 000ABB 000AC6 000AC6 000ACA 000ACA 000ACE 000ACF 000AD1 000ADF 000AE4 000AE5 000AF2 000AF8 000B00 000B00 000B04 000B04 000B0D 000B0E 000B11 000B12 000B29 000B29 000B31 000B31 000B34 000B34 000B3A 000B3B 000B45 000B46 000B49 000B4A 000B4E 000B54 000B58 000B5B 000B5E 000B5E 000B64 000B65 000B78 000B81 000B84 000B84 000B8B 000B8D 000B91 000B91 000B96 000B98 000B9B 000B9B 000B9D 000B9D 000BA0 000BA2 000BA5 000BA7 000BAB 000BAD 000BBA 000BBD 000BC3 000BC5 000BC9 000BC9 000BCE 000BCF 000BD1 000BD6 000BD8 000BE5 000BFB 000BFF 000C0D 000C0D 000C11 000C11 000C29 000C29 000C3A 000C3B 000C45 000C45 000C49 000C49 000C4E 000C54 000C57 000C57 000C5B 000C5C 000C5E 000C5F 000C64 000C65 000C70 000C76 000C8D 000C8D 000C91 000C91 000CA9 000CA9 000CB4 000CB4 000CBA 000CBB 000CC5 000CC5 000CC9 000CC9 000CCE 000CD4 000CD7 000CDC 000CDF 000CDF 000CE4 000CE5 000CF0 000CF0 000CF3 000CFF 000D0D 000D0D 000D11 000D11 000D45 000D45 000D49 000D49 000D50 000D53 000D64 000D65 000D80 000D80 000D84 000D84 000D97 000D99 000DB2 000DB2 000DBC 000DBC 000DBE 000DBF 000DC7 000DC9 000DCB 000DCE 000DD5 000DD5 000DD7 000DD7 000DE0 000DE5 000DF0 000DF1 000DF5 000E00 000E3B 000E3E 000E5C 000E80 000E83 000E83 000E85 000E85 000E8B 000E8B 000EA4 000EA4 000EA6 000EA6 000EBE 000EBF 000EC5 000EC5 000EC7 000EC7 000ECE 000ECF 000EDA 000EDB 000EE0 000EFF 000F48 000F48 000F6D 000F70 000F98 000F98 000FBD 000FBD 000FCD 000FCD 000FDB 000FFF 0010C6 0010C6 0010C8 0010CC 0010CE 0010CF 001249 001249 00124E 00124F 001257 001257 001259 001259 00125E 00125F 001289 001289 00128E 00128F 0012B1 0012B1 0012B6 0012B7 0012BF 0012BF 0012C1 0012C1 0012C6 0012C7 0012D7 0012D7 001311 001311 001316 001317 00135B 00135C 00137D 00137F 00139A 00139F 0013F6 0013F7 0013FE 0013FF 001680 001680 00169D 00169F 0016F9 0016FF 001716 00171E 001737 00173F 001754 00175F 00176D 00176D 001771 001771 001774 00177F 0017DE 0017DF 0017EA 0017EF 0017FA 0017FF 00180E 00180E 00181A 00181F 001879 00187F 0018AB 0018AF 0018F6 0018FF 00191F 00191F 00192C 00192F 00193C 00193F 001941 001943 00196E 00196F 001975 00197F 0019AC 0019AF 0019CA 0019CF 0019DB 0019DD 001A1C 001A1D 001A5F 001A5F 001A7D 001A7E 001A8A 001A8F 001A9A 001A9F 001AAE 001AAF 001ACF 001AFF 001B4D 001B4F 001B7F 001B7F 001BF4 001BFB 001C38 001C3A 001C4A 001C4C 001C89 001C8F 001CBB 001CBC 001CC8 001CCF 001CFB 001CFF 001F16 001F17 001F1E 001F1F 001F46 001F47 001F4E 001F4F 001F58 001F58 001F5A 001F5A 001F5C 001F5C 001F5E 001F5E 001F7E 001F7F 001FB5 001FB5 001FC5 001FC5 001FD4 001FD5 001FDC 001FDC 001FF0 001FF1 001FF5 001FF5 001FFF 00200F 002028 00202F 00205F 00206F 002072 002073 00208F 00208F 00209D 00209F 0020C1 0020CF 0020F1 0020FF 00218C 00218F 002427 00243F 00244B 00245F 002B74 002B75 002B96 002B96 002CF4 002CF8 002D26 002D26 002D28 002D2C 002D2E 002D2F 002D68 002D6E 002D71 002D7E 002D97 002D9F 002DA7 002DA7 002DAF 002DAF 002DB7 002DB7 002DBF 002DBF 002DC7 002DC7 002DCF 002DCF 002DD7 002DD7 002DDF 002DDF 002E5E 002E7F 002E9A 002E9A 002EF4 002EFF 002FD6 002FEF 002FFC 003000 003040 003040 003097 003098 003100 003104 003130 003130 00318F 00318F 0031E4 0031EF 00321F 00321F 00A48D 00A48F 00A4C7 00A4CF 00A62C 00A63F 00A6F8 00A6FF 00A7CB 00A7CF 00A7D2 00A7D2 00A7D4 00A7D4 00A7DA 00A7F1 00A82D 00A82F 00A83A 00A83F 00A878 00A87F 00A8C6 00A8CD 00A8DA 00A8DF 00A954 00A95E 00A97D 00A97F 00A9CE 00A9CE 00A9DA 00A9DD 00A9FF 00A9FF 00AA37 00AA3F 00AA4E 00AA4F 00AA5A 00AA5B 00AAC3 00AADA 00AAF7 00AB00 00AB07 00AB08 00AB0F 00AB10 00AB17 00AB1F 00AB27 00AB27 00AB2F 00AB2F 00AB6C 00AB6F 00ABEE 00ABEF 00ABFA 00ABFF 00D7A4 00D7AF 00D7C7 00D7CA 00D7FC 00F8FF 00FA6E 00FA6F 00FADA 00FAFF 00FB07 00FB12 00FB18 00FB1C 00FB37 00FB37 00FB3D 00FB3D 00FB3F 00FB3F 00FB42 00FB42 00FB45 00FB45 00FBC3 00FBD2 00FD90 00FD91 00FDC8 00FDCE 00FDD0 00FDEF 00FE1A 00FE1F 00FE53 00FE53 00FE67 00FE67 00FE6C 00FE6F 00FE75 00FE75 00FEFD 00FF00 00FFBF 00FFC1 00FFC8 00FFC9 00FFD0 00FFD1 00FFD8 00FFD9 00FFDD 00FFDF 00FFE7 00FFE7 00FFEF 00FFFB 00FFFE 00FFFF 01000C 01000C 010027 010027 01003B 01003B 01003E 01003E 01004E 01004F 01005E 01007F 0100FB 0100FF 010103 010106 010134 010136 01018F 01018F 01019D 01019F 0101A1 0101CF 0101FE 01027F 01029D 01029F 0102D1 0102DF 0102FC 0102FF 010324 01032C 01034B 01034F 01037B 01037F 01039E 01039E 0103C4 0103C7 0103D6 0103FF 01049E 01049F 0104AA 0104AF 0104D4 0104D7 0104FC 0104FF 010528 01052F 010564 01056E 01057B 01057B 01058B 01058B 010593 010593 010596 010596 0105A2 0105A2 0105B2 0105B2 0105BA 0105BA 0105BD 0105FF 010737 01073F 010756 01075F 010768 01077F 010786 010786 0107B1 0107B1 0107BB 0107FF 010806 010807 010809 010809 010836 010836 010839 01083B 01083D 01083E 010856 010856 01089F 0108A6 0108B0 0108DF 0108F3 0108F3 0108F6 0108FA 01091C 01091E 01093A 01093E 010940 01097F 0109B8 0109BB 0109D0 0109D1 010A04 010A04 010A07 010A0B 010A14 010A14 010A18 010A18 010A36 010A37 010A3B 010A3E 010A49 010A4F 010A59 010A5F 010AA0 010ABF 010AE7 010AEA 010AF7 010AFF 010B36 010B38 010B56 010B57 010B73 010B77 010B92 010B98 010B9D 010BA8 010BB0 010BFF 010C49 010C7F 010CB3 010CBF 010CF3 010CF9 010D28 010D2F 010D3A 010E5F 010E7F 010E7F 010EAA 010EAA 010EAE 010EAF 010EB2 010EFF 010F28 010F2F 010F5A 010F6F 010F8A 010FAF 010FCC 010FDF 010FF7 010FFF 01104E 011051 011076 01107E 0110BD 0110BD 0110C3 0110CF 0110E9 0110EF 0110FA 0110FF 011135 011135 011148 01114F 011177 01117F 0111E0 0111E0 0111F5 0111FF 011212 011212 01123F 01127F 011287 011287 011289 011289 01128E 01128E 01129E 01129E 0112AA 0112AF 0112EB 0112EF 0112FA 0112FF 011304 011304 01130D 01130E 011311 011312 011329 011329 011331 011331 011334 011334 01133A 01133A 011345 011346 011349 01134A 01134E 01134F 011351 011356 011358 01135C 011364 011365 01136D 01136F 011375 0113FF 01145C 01145C 011462 01147F 0114C8 0114CF 0114DA 01157F 0115B6 0115B7 0115DE 0115FF 011645 01164F 01165A 01165F 01166D 01167F 0116BA 0116BF 0116CA 0116FF 01171B 01171C 01172C 01172F 011747 0117FF 01183C 01189F 0118F3 0118FE 011907 011908 01190A 01190B 011914 011914 011917 011917 011936 011936 011939 01193A 011947 01194F 01195A 01199F 0119A8 0119A9 0119D8 0119D9 0119E5 0119FF 011A48 011A4F 011AA3 011AAF 011AF9 011BFF 011C09 011C09 011C37 011C37 011C46 011C4F 011C6D 011C6F 011C90 011C91 011CA8 011CA8 011CB7 011CFF 011D07 011D07 011D0A 011D0A 011D37 011D39 011D3B 011D3B 011D3E 011D3E 011D48 011D4F 011D5A 011D5F 011D66 011D66 011D69 011D69 011D8F 011D8F 011D92 011D92 011D99 011D9F 011DAA 011EDF 011EF9 011FAF 011FB1 011FBF 011FF2 011FFE 01239A 0123FF 01246F 01246F 012475 01247F 012544 012F8F 012FF3 012FFF 01342F 0143FF 014647 0167FF 016A39 016A3F 016A5F 016A5F 016A6A 016A6D 016ABF 016ABF 016ACA 016ACF 016AEE 016AEF 016AF6 016AFF 016B46 016B4F 016B5A 016B5A 016B62 016B62 016B78 016B7C 016B90 016E3F 016E9B 016EFF 016F4B 016F4E 016F88 016F8E 016FA0 016FDF 016FE5 016FEF 016FF2 016FFF 0187F8 0187FF 018CD6 018CFF 018D09 01AFEF 01AFF4 01AFF4 01AFFC 01AFFC 01AFFF 01AFFF 01B123 01B14F 01B153 01B163 01B168 01B16F 01B2FC 01BBFF 01BC6B 01BC6F 01BC7D 01BC7F 01BC89 01BC8F 01BC9A 01BC9B 01BCA0 01CEFF 01CF2E 01CF2F 01CF47 01CF4F 01CFC4 01CFFF 01D0F6 01D0FF 01D127 01D128 01D173 01D17A 01D1EB 01D1FF 01D246 01D2DF 01D2F4 01D2FF 01D357 01D35F 01D379 01D3FF 01D455 01D455 01D49D 01D49D 01D4A0 01D4A1 01D4A3 01D4A4 01D4A7 01D4A8 01D4AD 01D4AD 01D4BA 01D4BA 01D4BC 01D4BC 01D4C4 01D4C4 01D506 01D506 01D50B 01D50C 01D515 01D515 01D51D 01D51D 01D53A 01D53A 01D53F 01D53F 01D545 01D545 01D547 01D549 01D551 01D551 01D6A6 01D6A7 01D7CC 01D7CD 01DA8C 01DA9A 01DAA0 01DAA0 01DAB0 01DEFF 01DF1F 01DFFF 01E007 01E007 01E019 01E01A 01E022 01E022 01E025 01E025 01E02B 01E0FF 01E12D 01E12F 01E13E 01E13F 01E14A 01E14D 01E150 01E28F 01E2AF 01E2BF 01E2FA 01E2FE 01E300 01E7DF 01E7E7 01E7E7 01E7EC 01E7EC 01E7EF 01E7EF 01E7FF 01E7FF 01E8C5 01E8C6 01E8D7 01E8FF 01E94C 01E94F 01E95A 01E95D 01E960 01EC70 01ECB5 01ED00 01ED3E 01EDFF 01EE04 01EE04 01EE20 01EE20 01EE23 01EE23 01EE25 01EE26 01EE28 01EE28 01EE33 01EE33 01EE38 01EE38 01EE3A 01EE3A 01EE3C 01EE41 01EE43 01EE46 01EE48 01EE48 01EE4A 01EE4A 01EE4C 01EE4C 01EE50 01EE50 01EE53 01EE53 01EE55 01EE56 01EE58 01EE58 01EE5A 01EE5A 01EE5C 01EE5C 01EE5E 01EE5E 01EE60 01EE60 01EE63 01EE63 01EE65 01EE66 01EE6B 01EE6B 01EE73 01EE73 01EE78 01EE78 01EE7D 01EE7D 01EE7F 01EE7F 01EE8A 01EE8A 01EE9C 01EEA0 01EEA4 01EEA4 01EEAA 01EEAA 01EEBC 01EEEF 01EEF2 01EFFF 01F02C 01F02F 01F094 01F09F 01F0AF 01F0B0 01F0C0 01F0C0 01F0D0 01F0D0 01F0F6 01F0FF 01F1AE 01F1E5 01F203 01F20F 01F23C 01F23F 01F249 01F24F 01F252 01F25F 01F266 01F2FF 01F6D8 01F6DC 01F6ED 01F6EF 01F6FD 01F6FF 01F774 01F77F 01F7D9 01F7DF 01F7EC 01F7EF 01F7F1 01F7FF 01F80C 01F80F 01F848 01F84F 01F85A 01F85F 01F888 01F88F 01F8AE 01F8AF 01F8B2 01F8FF 01FA54 01FA5F 01FA6E 01FA6F 01FA75 01FA77 01FA7D 01FA7F 01FA87 01FA8F 01FAAD 01FAAF 01FABB 01FABF 01FAC6 01FACF 01FADA 01FADF 01FAE8 01FAEF 01FAF7 01FAFF 01FB93 01FB93 01FBCB 01FBEF 01FBFA 01FFFF 02A6E0 02A6FF 02B739 02B73F 02B81E 02B81F 02CEA2 02CEAF 02EBE1 02F7FF 02FA1E 02FFFF 03134B 0E00FF 0E01F0 10FFFF ", 2)

\* The cased characters (lower case, upper case or title case): rows
\* <<first, last>>.
CasedRuns ==
    Rows("000041 00005A 000061 00007A 0000AA 0000AA 0000B5 0000B5 0000BA 0000BA 0000C0 0000D6 0000D8 0000F6 0000F8 0001BA 0001BC 0001BF 0001C4 000293 000295 0002B8 0002C0 0002C1 0002E0 0002E4 000345 000345 000370 000373 000376 000377 00037A 00037D 00037F 00037F 000386 000386 000388 00038A 00038C 00038C 00038E 0003A1 0003A3 0003F5 0003F7 000481 00048A 00052F 000531 000556 000560 000588 0010A0 0010C5 0010C7 0010C7 0010CD 0010CD 0010D0 0010FA 0010FD 0010FF 0013A0 0013F5 0013F8 0013FD 001C80 001C88 001C90 001CBA 001CBD 001CBF 001D00 001DBF 001E00 001F15 001F18 001F1D 001F20 001F45 001F48 001F4D 001F50 001F57 001F59 001F59 001F5B 001F5B 001F5D 001F5D 001F5F 001F7D 001F80 001FB4 001FB6 001FBC 001FBE 001FBE 001FC2 001FC4 001FC6 001FCC 001FD0 001FD3 001FD6 001FDB 001FE0 001FEC 001FF2 001FF4 001FF6 001FFC 002071 002071 00207F 00207F 002090 00209C 002102 002102 002107 002107 00210A 002113 002115 002115 002119 00211D 002124 002124 002126 002126 002128 002128 00212A 00212D 00212F 002134 002139 002139 00213C 00213F 002145 002149 00214E 00214E 002160 00217F 002183 002184 0024B6 0024E9 002C00 002CE4 002CEB 002CEE 002CF2 002CF3 002D00 002D25 002D27 002D27 002D2D 002D2D 00A640 00A66D 00A680 00A69D 00A722 00A787 00A78B 00A78E 00A790 00A7CA 00A7D0 00A7D1 00A7D3 00A7D3 00A7D5 00A7D9 00A7F5 00A7F6 00A7F8 00A7FA 00AB30 00AB5A 00AB5C 00AB68 00AB70 00ABBF 00FB00 00FB06 00FB13 00FB17 00FF21 00FF3A 00FF41 00FF5A 010400 01044F 0104B0 0104D3 0104D8 0104FB 010570 01057A 01057C 01058A 01058C 010592 010594 010595 010597 0105A1 0105A3 0105B1 0105B3 0105B9 0105BB 0105BC 010780 010780 010783 010785 010787 0107B0 0107B2 0107BA 010C80 010CB2 010CC0 010CF2 0118A0 0118DF 016E40 016E7F 01D400 01D454 01D456 01D49C 01D49E 01D49F 01D4A2 01D4A2 01D4A5 01D4A6 01D4A9 01D4AC 01D4AE 01D4B9 01D4BB 01D4BB 01D4BD 01D4C3 01D4C5 01D505 01D507 01D50A 01D50D 01D514 01D516 01D51C 01D51E 01D539 01D53B 01D53E 01D540 01D544 01D546 01D546 01D54A 01D550 01D552 01D6A5 01D6A8 01D6C0 01D6C2 01D6DA 01D6DC 01D6FA 01D6FC 01D714 01D716 01D734 01D736 01D74E 01D750 01D76E 01D770 01D788 01D78A 01D7A8 01D7AA 01D7C2 01D7C4 01D7CB 01DF00 01DF09 01DF0B 01DF1E 01E900 01E943 01F130 01F149 01F150 01F169 01F170 01F189 ", 2)

\* The case-ignorable characters (apostrophe, full stop, combining marks,
\* ...): rows <<first, last>>.
CaseIgnorableRuns ==
    Rows("000027 000027 00002E 00002E 00003A 00003A 00005E 00005E 000060 000060 0000A8 0000A8 0000AD 0000AD 0000AF 0000AF 0000B4 0000B4 0000B7 0000B8 0002B0 00036F 000374 000375 00037A 00037A 000384 000385 000387 000387 000483 000489 000559 000559 00055F 00055F 000591 0005BD 0005BF 0005BF 0005C1 0005C2 0005C4 0005C5 0005C7 0005C7 0005F4 0005F4 000600 000605 000610 00061A 00061C 00061C 000640 000640 00064B 00065F 000670 000670 0006D6 0006DD 0006DF 0006E8 0006EA 0006ED 00070F 00070F 000711 000711 000730 00074A 0007A6 0007B0 0007EB 0007F5 0007FA 0007FA 0007FD 0007FD 000816 00082D 000859 00085B 000888 000888 000890 000891 000898 00089F 0008C9 000902 00093A 00093A 00093C 00093C 000941 000948 00094D 00094D 000951 000957 000962 000963 000971 000971 000981 000981 0009BC 0009BC 0009C1 0009C4 0009CD 0009CD 0009E2 0009E3 0009FE 0009FE 000A01 000A02 000A3C 000A3C 000A41 000A42 000A47 000A48 000A4B 000A4D 000A51 000A51 000A70 000A71 000A75 000A75 000A81 000A82 000ABC 000ABC 000AC1 000AC5 000AC7 000AC8 000ACD 000ACD 000AE2 000AE3 000AFA 000AFF 000B01 000B01 000B3C 000B3C 000B3F 000B3F 000B41 000B44 000B4D 000B4D 000B55 000B56 000B62 000B63 000B82 000B82 000BC0 000BC0 000BCD 000BCD 000C00 000C00 000C04 000C04 000C3C 000C3C 000C3E 000C40 000C46 000C48 000C4A 000C4D 000C55 000C56 000C62 000C63 000C81 000C81 000CBC 000CBC 000CBF 000CBF 000CC6 000CC6 000CCC 000CCD 000CE2 000CE3 000D00 000D01 000D3B 000D3C 000D41 000D44 000D4D 000D4D 000D62 000D63 000D81 000D81 000DCA 000DCA 000DD2 000DD4 000DD6 000DD6 000E31 000E31 000E34 000E3A 000E46 000E4E 000EB1 000EB1 000EB4 000EBC 000EC6 000EC6 000EC8 000ECD 000F18 000F19 000F35 000F35 000F37 000F37 000F39 000F39 000F71 000F7E 000F80 000F84 000F86 000F87 000F8D 000F97 000F99 000FBC 000FC6 000FC6 00102D 001030 001032 001037 001039 00103A 00103D 00103E 001058 001059 00105E 001060 001071 001074 001082 001082 001085 001086 00108D 00108D 00109D 00109D 0010FC 0010FC 00135D 00135F 001712 001714 001732 001733 001752 001753 001772 001773 0017B4 0017B5 0017B7 0017BD 0017C6 0017C6 0017C9 0017D3 0017D7 0017D7 0017DD 0017DD 00180B 00180F 001843 001843 001885 001886 0018A9 0018A9 001920 001922 001927 001928 001932 001932 001939 00193B 001A17 001A18 001A1B 001A1B 001A56 001A56 001A58 001A5E 001A60 001A60 001A62 001A62 001A65 001A6C 001A73 001A7C 001A7F 001A7F 001AA7 001AA7 001AB0 001ACE 001B00 001B03 001B34 001B34 001B36 001B3A 001B3C 001B3C 001B42 001B42 001B6B 001B73 001B80 001B81 001BA2 001BA5 001BA8 001BA9 001BAB 001BAD 001BE6 001BE6 001BE8 001BE9 001BED 001BED 001BEF 001BF1 001C2C 001C33 001C36 001C37 001C78 001C7D 001CD0 001CD2 001CD4 001CE0 001CE2 001CE8 001CED 001CED 001CF4 001CF4 001CF8 001CF9 001D2C 001D6A 001D78 001D78 001D9B 001DFF 001FBD 001FBD 001FBF 001FC1 001FCD 001FCF 001FDD 001FDF 001FED 001FEF 001FFD 001FFE 00200B 00200F 002018 002019 002024 002024 002027 002027 00202A 00202E 002060 002064 002066 00206F 002071 002071 00207F 00207F 002090 00209C 0020D0 0020F0 002C7C 002C7D 002CEF 002CF1 002D6F 002D6F 002D7F 002D7F 002DE0 002DFF 002E2F 002E2F 003005 003005 00302A 00302D 003031 003035 00303B 00303B 003099 00309E 0030FC 0030FE 00A015 00A015 00A4F8 00A4FD 00A60C 00A60C 00A66F 00A672 00A674 00A67D 00A67F 00A67F 00A69C 00A69F 00A6F0 00A6F1 00A700 00A721 00A770 00A770 00A788 00A78A 00A7F2 00A7F4 00A7F8 00A7F9 00A802 00A802 00A806 00A806 00A80B 00A80B 00A825 00A826 00A82C 00A82C 00A8C4 00A8C5 00A8E0 00A8F1 00A8FF 00A8FF 00A926 00A92D 00A947 00A951 00A980 00A982 00A9B3 00A9B3 00A9B6 00A9B9 00A9BC 00A9BD 00A9CF 00A9CF 00A9E5 00A9E6 00AA29 00AA2E 00AA31 00AA32 00AA35 00AA36 00AA43 00AA43 00AA4C 00AA4C 00AA70 00AA70 00AA7C 00AA7C 00AAB0 00AAB0 00AAB2 00AAB4 00AAB7 00AAB8 00AABE 00AABF 00AAC1 00AAC1 00AADD 00AADD 00AAEC 00AAED 00AAF3 00AAF4 00AAF6 00AAF6 00AB5B 00AB5F 00AB69 00AB6B 00ABE5 00ABE5 00ABE8 00ABE8 00ABED 00ABED 00FB1E 00FB1E 00FBB2 00FBC2 00FE00 00FE0F 00FE13 00FE13 00FE20 00FE2F 00FE52 00FE52 00FE55 00FE55 00FEFF 00FEFF 00FF07 00FF07 00FF0E 00FF0E 00FF1A 00FF1A 00FF3E 00FF3E 00FF40 00FF40 00FF70 00FF70 00FF9E 00FF9F 00FFE3 00FFE3 00FFF9 00FFFB 0101FD 0101FD 0102E0 0102E0 010376 01037A 010780 010785 010787 0107B0 0107B2 0107BA 010A01 010A03 010A05 010A06 010A0C 010A0F 010A38 010A3A 010A3F 010A3F 010AE5 010AE6 010D24 010D27 010EAB 010EAC 010F46 010F50 010F82 010F85 011001 011001 011038 011046 011070 011070 011073 011074 01107F 011081 0110B3 0110B6 0110B9 0110BA 0110BD 0110BD 0110C2 0110C2 0110CD 0110CD 011100 011102 011127 01112B 01112D 011134 011173 011173 011180 011181 0111B6 0111BE 0111C9 0111CC 0111CF 0111CF 01122F 011231 011234 011234 011236 011237 01123E 01123E 0112DF 0112DF 0112E3 0112EA 011300 011301 01133B 01133C 011340 011340 011366 01136C 011370 011374 011438 01143F 011442 011444 011446 011446 01145E 01145E 0114B3 0114B8 0114BA 0114BA 0114BF 0114C0 0114C2 0114C3 0115B2 0115B5 0115BC 0115BD 0115BF 0115C0 0115DC 0115DD 011633 01163A 01163D 01163D 01163F 011640 0116AB 0116AB 0116AD 0116AD 0116B0 0116B5 0116B7 0116B7 01171D 01171F 011722 011725 011727 01172B 01182F 011837 011839 01183A 01193B 01193C 01193E 01193E 011943 011943 0119D4 0119D7 0119DA 0119DB 0119E0 0119E0 011A01 011A0A 011A33 011A38 011A3B 011A3E 011A47 011A47 011A51 011A56 011A59 011A5B 011A8A 011A96 011A98 011A99 011C30 011C36 011C38 011C3D 011C3F 011C3F 011C92 011CA7 011CAA 011CB0 011CB2 011CB3 011CB5 011CB6 011D31 011D36 011D3A 011D3A 011D3C 011D3D 011D3F 011D45 011D47 011D47 011D90 011D91 011D95 011D95 011D97 011D97 011EF3 011EF4 013430 013438 016AF0 016AF4 016B30 016B36 016B40 016B43 016F4F 016F4F 016F8F 016F9F 016FE0 016FE1 016FE3 016FE4 01AFF0 01AFF3 01AFF5 01AFFB 01AFFD 01AFFE 01BC9D 01BC9E 01BCA0 01BCA3 01CF00 01CF2D 01CF30 01CF46 01D167 01D169 01D173 01D182 01D185 01D18B 01D1AA 01D1AD 01D242 01D244 01DA00 01DA36 01DA3B 01DA6C 01DA75 01DA75 01DA84 01DA84 01DA9B 01DA9F 01DAA1 01DAAF 01E000 01E006 01E008 01E018 01E01B 01E021 01E023 01E024 01E026 01E02A 01E130 01E13D 01E2AE 01E2AE 01E2EC 01E2EF 01E8D0 01E8D6 01E944 01E94B 01F3FB 01F3FF 0E0001 0E0001 0E0020 0E007F 0E0100 0E01EF ", 2)

---------------------------------------------------------------------------
(* Text operations *)

\* The code points of a row <<first, last, step, ...>>.
RunCodes(r) == {n \in r[1]..r[2] : (n - r[1]) % r[3] = 0}

\* The pairs <<n, mapping of n>> of the rows <<first, last, step, mapping of
\* first>>.
RunPairs(runs) == UNION {{<<n, n + r[4] - r[1]>> : n \in RunCodes(r)} : r \in runs}

\* The code points of the rows <<first, last>>.
RangeCodes(ranges) == UNION {r[1]..r[2] : r \in ranges}

\* Whether one of the rows <<first, last>> holds the code point n.
InRuns(n, ranges) == \E r \in ranges : r[1] <= n /\ n <= r[2]

\* The characters of a set of code points.
Chars(codes) == {Char(n) : n \in codes}

\* The pairs of characters of pairs of code points.
CharPairs(pairs) == {[i \in 1..2 |-> Char(p[i])] : p \in pairs}

\* The function that maps x to y for every pair <<x, y>>.
MapOf(pairs) == [x \in {p[1] : p \in pairs} |-> (CHOOSE p \in pairs : p[1] = x)[2]]

\* str.lower() on one character, for the characters it changes into one
\* character.
LowerMap == MapOf(CharPairs(RunPairs(LowerRuns)))

\* The title case of one character, for the characters it changes: the
\* characters it gives ("Ss" for the sharp s U+DF).
TitleMap ==
    MapOf({<<p[1], <<p[2]>>>> : p \in CharPairs(RunPairs(TitleRuns))}
            \cup {<<Char(r[1]), [i \in 1..(IF r[4] = 0 THEN 2 ELSE 3) |-> Char(r[i + 1])]>> :
                     r \in TitleLong})

\* The value of the function `map` at c, c where it has none.
Mapped(c, map) == IF c \in DOMAIN map THEN map[c] ELSE c

\* The lower case of one character out of context, when it is one character.
LowerChar(c) == Mapped(c, LowerMap)
TitleChar(c) == IF c \in DOMAIN TitleMap THEN TitleMap[c] ELSE <<c>>

Cased == Chars(RangeCodes(CasedRuns))
CaseIgnorable == Chars(RangeCodes(CaseIgnorableRuns))

\* Whether position i of s ends a word, `kept` the positions of s whose
\* character is not case-ignorable: the nearest position of `kept` before i holds
\* a cased character, and the nearest one after i, if any, does not.
EndsWord(s, i, kept, cased) ==
    /\ \E j \in kept : j < i
    /\ s[SetMax({j \in kept : j < i})] \in cased
    /\ \/ \A j \in kept : j <= i
       \/ s[SetMin({j \in kept : j > i})] \notin cased

\* Whether the capital sigma at position i of s ends a word.
FinalSigma(s, i) ==
    EndsWord(s, i, {j \in 1..Len(s) : s[j] \notin CaseIgnorable}, Cased)

\* The lower case of the character at position i of s: the capital sigma U+3A3
\* gives the final sigma U+3C2 at the end of a word, and the capital I with dot
\* U+130 gives two characters.
LowerAt(s, i) ==
    IF s[i] = "U+3A3" THEN <<IF FinalSigma(s, i) THEN "U+3C2" ELSE "U+3C3">>
    ELSE IF s[i] = "U+130" THEN <<"i", "U+307">>
    ELSE <<LowerChar(s[i])>>

\* s with the leading and trailing characters that are in `chars` removed.
StripChars(s, chars) ==
    LET keep == {i \in 1..Len(s) : s[i] \notin chars}
    IN  IF keep = {} THEN <<>> ELSE SubSeq(s, SetMin(keep), SetMax(keep))

\* str.rstrip(chars)
RStripChars(s, chars) ==
    LET keep == {i \in 1..Len(s) : s[i] \notin chars}
    IN  IF keep = {} THEN <<>> ELSE SubSeq(s, 1, SetMax(keep))

\* The characters str.strip() and str.split() treat as white space: those
\* str.isspace() holds for.
WhiteSpace ==
    {" ", "\t", "\n", "\r", "U+B", "U+C", "U+1C", "U+1D", "U+1E", "U+1F", "U+85",
     "U+A0", "U+1680", "U+2000", "U+2001", "U+2002", "U+2003", "U+2004", "U+2005",
     "U+2006", "U+2007", "U+2008", "U+2009", "U+200A", "U+2028", "U+2029", "U+202F",
     "U+205F", "U+3000"}

\* str.strip()
Strip(s) == StripChars(s, WhiteSpace)

\* str.find(needle): the first index (from 1) where needle occurs, 0 if none.
Find(s, needle) ==
    LET at == {i \in 1..(Len(s) - Len(needle) + 1) :
                  SubSeq(s, i, i + Len(needle) - 1) = needle}
    IN  IF at = {} THEN 0 ELSE SetMin(at)

\* `needle in s`
Contains(s, needle) == Find(s, needle) # 0

\* str.startswith(prefix)
StartsWith(s, prefix) ==
    Len(s) >= Len(prefix) /\ SubSeq(s, 1, Len(prefix)) = prefix

\* str.split(sep) for a separator of one character: the pieces between the
\* successive positions of the separator.
Split(s, sep) ==
    LET pos == {i \in 1..Len(s) : s[i] = sep[1]}
        n == Cardinality(pos)
        kth(k) == CHOOSE p \in pos : Cardinality({q \in pos : q <= p}) = k
    IN  [k \in 1..(n + 1) |->
            SubSeq(s, IF k = 1 THEN 1 ELSE kth(k - 1) + 1,
                      IF k = n + 1 THEN Len(s) ELSE kth(k) - 1)]

\* str.split(): on runs of white space, no empty piece.
RECURSIVE SplitWs(_)
SplitWs(s) ==
    LET start == {i \in 1..Len(s) : s[i] \notin WhiteSpace}
    IN  IF start = {} THEN <<>>
        ELSE LET b == SetMin(start)
                 stop == {i \in b..Len(s) : s[i] \in WhiteSpace}
                 e == IF stop = {} THEN Len(s) + 1 ELSE SetMin(stop)
             IN  <<SubSeq(s, b, e - 1)>> \o SplitWs(SubSeq(s, e, Len(s)))

\* str.replace(old, new), old not empty.
RECURSIVE Replace(_, _, _)
Replace(s, old, new) ==
    LET i == Find(s, old)
    IN  IF i = 0 THEN s
        ELSE SubSeq(s, 1, i - 1) \o new
                 \o Replace(SubSeq(s, i + Len(old), Len(s)), old, new)

\* sep.join(parts[lo..hi]), the range halved at each step.
RECURSIVE JoinRange(_, _, _, _)
JoinRange(parts, sep, lo, hi) ==
    IF lo > hi THEN <<>>
    ELSE IF lo = hi THEN parts[lo]
    ELSE LET m == (lo + hi) \div 2
         IN  JoinRange(parts, sep, lo, m) \o sep \o JoinRange(parts, sep, m + 1, hi)

\* sep.join(parts)
Join(parts, sep) == JoinRange(parts, sep, 1, Len(parts))

\* [x for x in parts if x]
NonEmpty(parts) == SelectSeq(parts, LAMBDA x : Len(x) > 0)

\* The pieces of `parts` in a row: "".join(parts).
Flat(parts) ==
    IF \A i \in 1..Len(parts) : Len(parts[i]) = 1
    THEN [i \in 1..Len(parts) |-> parts[i][1]]
    ELSE Join(parts, <<>>)

\* The lower case of s from position k on, in the context of the whole of s.
LowerFrom(s, k) == Flat([i \in 1..(Len(s) - k + 1) |-> LowerAt(s, i + k - 1)])

\* str.lower()
Lower(s) == LowerFrom(s, 1)

\* str.capitalize(): the first character in title case, the rest lower-cased.
Capitalize(s) ==
    IF Len(s) = 0 THEN <<>> ELSE TitleChar(s[1]) \o LowerFrom(s, 2)

\* The decimal digits and their values: the digits \d matches and float()
\* reads.
DigitMap == MapOf({<<Char(z[1] + i), i>> : z \in DecimalZeros, i \in 0..9})

IsDigitChar(c) == c \in DOMAIN DigitMap
DigitValue(c) == DigitMap[c]

\* The digits str.isdigit() holds for that are no decimal digit.
OtherDigits == Chars(RangeCodes(OtherDigitRuns))

\* str.isdigit(): not empty and every character a digit, decimal or not.
IsDigit(s) ==
    Len(s) > 0 /\ \A i \in 1..Len(s) : IsDigitChar(s[i]) \/ s[i] \in OtherDigits

\* The decimal digits of a natural number.
RECURSIVE NatToStr(_)
NatToStr(n) ==
    IF n < 10 THEN <<SubSeq(Digits, n + 1, n + 1)>>
    ELSE NatToStr(n \div 10) \o <<SubSeq(Digits, (n % 10) + 1, (n % 10) + 1)>>

\* str(n) for an int.
IntToStr(n) == IF n < 0 THEN <<"-">> \o NatToStr(-n) ELSE NatToStr(n)

\* The ASCII digits and their values: float() reads a number in them, any other
\* decimal digit made an ASCII one before.
IsAsciiDigit(c) == \E i \in 1..10 : SubSeq(Digits, i, i) = c
AsciiValue(c) == (CHOOSE i \in 1..10 : SubSeq(Digits, i, i) = c) - 1

\* The value of a string of ASCII digits.
RECURSIVE DigitsToNat(_)
DigitsToNat(s) ==
    IF Len(s) = 0 THEN 0
    ELSE 10 * DigitsToNat(SubSeq(s, 1, Len(s) - 1)) + AsciiValue(s[Len(s)])

---------------------------------------------------------------------------
(* Numbers *)

\* What float(x) gives: a float, or ok = FALSE for TypeError, ValueError and
\* OverflowError.  A finite float below 10^8 in magnitude is of kind "fin" and
\* held as its tenths m; one of 10^8 or more is of kind "big" or "-big" and held
\* as the text d of the digits of its integer part.
NoFloat == [ok |-> FALSE, k |-> "fin", m |-> 0, d |-> <<>>]
SomeFloat(k, m) == [ok |-> TRUE, k |-> k, m |-> m, d |-> <<>>]
BigFloat(neg, d) == [ok |-> TRUE, k |-> IF neg THEN "-big" ELSE "big", m |-> 0, d |-> d]

\* The digits of a digit string without its leading zeros.
StripZeros(d) ==
    IF \A i \in 1..Len(d) : d[i] = "0" THEN <<>>
    ELSE SubSeq(d, SetMin({i \in 1..Len(d) : d[i] # "0"}), Len(d))

AllDigits(x) == \A i \in 1..Len(x) : IsAsciiDigit(x[i])

\* float() allows an underscore between two digits and nowhere else.
UnderscoresOk(t) ==
    \A i \in 1..Len(t) :
        t[i] = "_" => /\ i > 1
                      /\ i < Len(t)
                      /\ IsAsciiDigit(t[i - 1])
                      /\ IsAsciiDigit(t[i + 1])

\* A number without its sign.
Unsigned(t) == IF Len(t) > 0 /\ t[1] \in {"+", "-"} THEN Tail(t) ELSE t

\* The number of digits before the point.
PointBefore(m, dot) == IF dot = 0 THEN Len(m) ELSE dot - 1
PointAt(m) == PointBefore(m, Find(m, <<".">>))
\* The mantissa of a number: digits with an optional point, one digit at least,
\* and no more than 10^9 digits (MAX_DIGITS of the interpreter's dtoa.c) behind
\* the leading zeros or behind the point.
MantissaDigitsOk(m, digits) ==
    /\ AllDigits(digits) /\ Len(m) - Len(digits) <= 1 /\ Len(digits) > 0
    /\ Len(StripZeros(digits)) <= 1000000000
    /\ Len(digits) - PointAt(m) <= 1000000000
MantissaOk(m) == MantissaDigitsOk(m, Replace(m, <<".">>, <<>>))

\* The exponent of a number: an optional sign and one digit at least.  float()
\* reads an exponent of up to nine digits, leading zeros apart, as it is, and a
\* longer one as 1100000000 (MAX_ABS_EXP of the interpreter's dtoa.c).
ExponentOk(e) == Len(Unsigned(e)) > 0 /\ AllDigits(Unsigned(e))
ExponentSize(d) == IF Len(d) > 9 THEN 1100000000 ELSE DigitsToNat(d)
ExponentValue(e) ==
    (IF e[1] = "-" THEN -1 ELSE 1) * ExponentSize(StripZeros(Unsigned(e)))

\* The least decimal float() rounds to infinity, 2^1024 - 2^970, half way between
\* the largest float and 2^1024: its 309 digits.
InfDigits ==
    "1797693134862315807937289714053034150799341327100378269361737789804449"
    \o "6829276475094664901797758720709633028641669288791094655554785194040263"
    \o "0657488671505820681908902000708383676273854845817711531764475730270069"
    \o "8555713669596228429148198608349364752927190741684443655107043427115596"
    \o "99508093042880177904174497792"

\* The largest decimal float() rounds to zero, 2^-1075, half of the smallest
\* float above zero: its 752 significant digits, after 323 zeros behind the point.
ZeroDigits ==
    "2470328229206232720882843964341106861825299013071623822127928412503377"
    \o "5363510437593264991818081799618989828234772285886546332835517796989819"
    \o "9387398005390939063150356595155702263922908583924491051844359318028499"
    \o "3653615250031937045767824921936562366986365848075700158576926990370631"
    \o "1928279558551332927834338409351978015531246597263579574622766465272827"
    \o "2200563740064854999770965994704540208281662262378573934507363390079677"
    \o "6193057750674017632467360096895134053553745851666113422376667860416215"
    \o "9680461914467291840300530057530849048765391711386591646239524912623653"
    \o "8818796362393732804238910186723484976682350898633885879256283027559956"
    \o "5752445550725518931369083625477918694866799496832404970582102851318545"
    \o "1396213837722826145437693412532098591327667236328125"

\* The digits sig, read as the decimal 0.sig, against the digits lit read the
\* same way: -1 when below, 0 when equal, 1 when above.
CompareDigits(sig, lit) ==
    LET a(i) == IF i <= Len(sig) THEN sig[i] ELSE "0"
        b(i) == IF i <= Len(lit) THEN SubSeq(lit, i, i) ELSE "0"
        diff == {i \in 1..(IF Len(sig) > Len(lit) THEN Len(sig) ELSE Len(lit)) : a(i) # b(i)}
    IN  IF diff = {} THEN 0
        ELSE IF AsciiValue(a(SetMin(diff))) < AsciiValue(b(SetMin(diff))) THEN -1 ELSE 1

\* Whether float() gives infinity for the number of significant digits sig and
\* of 309 digits before the point: from 2^1024 - 2^970 on.
RoundsToInf(sig) == CompareDigits(sig, InfDigits) >= 0

\* Whether float() gives zero for the number of significant digits sig after 323
\* zeros behind the point: up to 2^-1075.
RoundsToZero(sig) == CompareDigits(sig, ZeroDigits) <= 0

\* A natural number beyond the integers of TLC is the sequence of its decimal
\* digits, the most significant first.  The digits of a digit string:
DigitValues(d) == [i \in 1..Len(d) |-> AsciiValue(d[i])]

\* 2 * n
Twice(n) ==
    LET carry(i) == IF i <= Len(n) /\ n[i] >= 5 THEN 1 ELSE 0
    IN  (IF carry(1) = 1 THEN <<1>> ELSE <<>>)
            \o [i \in 1..Len(n) |-> (2 * n[i] + carry(i + 1)) % 10]

\* n * 2^k, k halved at each step.
RECURSIVE TimesPow2(_, _)
TimesPow2(n, k) ==
    IF k = 0 THEN n
    ELSE IF k = 1 THEN Twice(n)
    ELSE LET half == TimesPow2(n, k \div 2)
         IN  IF Len(half) > 0 THEN TimesPow2(half, k - k \div 2) ELSE half

\* n + 1
Succ(n) ==
    LET low == {i \in 1..Len(n) : n[i] # 9}
        p == IF low = {} THEN 0 ELSE SetMax(low)
    IN  (IF p = 0 THEN <<1>> ELSE SubSeq(n, 1, p - 1) \o <<n[p] + 1>>)
            \o [i \in 1..(Len(n) - p) |-> 0]

\* n without leading zeros
Trim(n) ==
    LET nz == {i \in 1..Len(n) : n[i] # 0}
    IN  IF nz = {} THEN <<>> ELSE SubSeq(n, SetMin(nz), Len(n))

\* a >= b, neither with a leading zero
AtLeast(a, b) ==
    LET diff == {i \in 1..Len(a) : a[i] # b[i]}
    IN  \/ Len(a) > Len(b)
        \/ Len(a) = Len(b) /\ (diff = {} \/ a[SetMin(diff)] > b[SetMin(diff)])

\* n \div 2
Half(n) ==
    Trim([i \in 1..Len(n) |-> ((IF i > 1 THEN 10 * (n[i - 1] % 2) ELSE 0) + n[i]) \div 2])

\* n \div 2^k, k halved at each step.
RECURSIVE HalfTimes(_, _)
HalfTimes(n, k) ==
    IF k = 0 THEN n
    ELSE IF k = 1 THEN Half(n)
    ELSE LET half == HalfTimes(n, k \div 2)
         IN  IF Len(half) > 0 THEN HalfTimes(half, k - k \div 2) ELSE half

\* The text of the digits of n.
DigitText(n) == [i \in 1..Len(n) |-> SubSeq(Digits, n[i] + 1, n[i] + 1)]

TwoTo52 == TimesPow2(<<1>>, 52)
TwoTo53 == TimesPow2(<<1>>, 53)
TwoTo54 == TimesPow2(<<1>>, 54)

\* A natural n of 2^53 or more is halved k times to come below 2^54; 2^k lies
\* between n / 2^54 and n / 2^53, and n between 10^(Len(n) - 1) and 10^Len(n).
Halvings(n) ==
    CHOOSE k \in 0..((3322 * Len(n)) \div 1000) :
        /\ 1000 * (k + 55) > 3321 * (Len(n) - 1)
        /\ AtLeast(HalfTimes(n, k), TwoTo53)
        /\ ~AtLeast(HalfTimes(n, k), TwoTo54)

\* What is left of n after its k halvings (n), k, and whether a one was dropped
\* (sticky).
LoweredBy(n, k, left) == [n |-> left, k |-> k, sticky |-> TimesPow2(left, k) # n]
LoweredTo(n, k) == LoweredBy(n, k, HalfTimes(n, k))
Lowered(n) == LoweredTo(n, Halvings(n))

\* The float nearest to a number of 2^53 or more, x being Lowered of its whole
\* part and `more` telling whether a digit behind its point is not zero: the 53
\* bits left of x.n, rounded to the nearest (to the even one of two), times the
\* power of two dropped.
RoundedTop(x, top, more) ==
    TimesPow2(IF /\ x.n[Len(x.n)] % 2 = 1
                 /\ (x.sticky \/ more \/ top[Len(top)] % 2 = 1)
              THEN Succ(top) ELSE top,
              x.k + 1)
LoweredFloat(x, more) == RoundedTop(x, Half(x.n), more)

\* The digits p, the last f of them behind the point, doubled until the whole
\* part is 2^52 or more: the digits (p) and the number of doublings (k).
RECURSIVE Scaled(_, _)
Scaled(x, f) ==
    IF AtLeast(Trim(SubSeq(x.p, 1, Len(x.p) - f)), TwoTo52) THEN x
    ELSE Scaled([p |-> Twice(x.p), k |-> x.k + 1], f)

\* The natural nearest to the digits p, the last f of them behind the point, the
\* even one of two.
NearestOf(p, f, whole) ==
    IF /\ f > 0
       /\ \/ p[Len(p) - f + 1] > 5
          \/ /\ p[Len(p) - f + 1] = 5
             /\ \/ \E i \in (Len(p) - f + 2)..Len(p) : p[i] # 0
                \/ whole[Len(whole)] % 2 = 1
    THEN Succ(whole) ELSE whole
Nearest(p, f) == NearestOf(p, f, Trim(SubSeq(p, 1, Len(p) - f)))

\* int(x) for the float x nearest to the digits p, the last f of them behind the
\* point, a number from 1 on: below 2^53 the float is the nearest multiple of
\* 2^-k, k the doublings that bring it to 2^52 or more, and int() drops what is
\* behind the point.
ScaledInt(x, f) == HalfTimes(Nearest(x.p, f), x.k)
FloatIntOf(p, f, whole) ==
    IF AtLeast(whole, TwoTo53)
    THEN LoweredFloat(Lowered(whole),
                      \E i \in (Len(p) - f + 1)..Len(p) : p[i] # 0)
    ELSE ScaledInt(Scaled([p |-> p, k |-> 0], f), f)
FloatInt(p, f) == FloatIntOf(p, f, Trim(SubSeq(p, 1, Len(p) - f)))

\* The binary exponent of t tenths, t >= 1: the largest e with 2^e <= t / 10.
BinaryExponent(t) ==
    SetMax({e \in -4..27 : IF e >= 0 THEN 10 * 2^e <= t
                                     ELSE t < 10 /\ 10 <= t * 2^(-e)})

\* p / 10 rounded to the nearest natural, to the even one of two.
TenthRounded(p) ==
    IF p[Len(p)] > 5 \/ (p[Len(p)] = 5 /\ p[Len(p) - 1] % 2 = 1)
    THEN Succ(SubSeq(p, 1, Len(p) - 1))
    ELSE SubSeq(p, 1, Len(p) - 1)

\* The float nearest to t tenths has 53 bits: it is Mantissa(t) times 2^(e - 52),
\* e the binary exponent of t tenths.
Mantissa(t) ==
    Trim(TenthRounded(TimesPow2(DigitValues(NatToStr(t)), 52 - BinaryExponent(t))))

\* Whether the number whose digits are p, the last f of them behind the point,
\* is rounded up to the natural m or beyond when rounded to the nearest natural.
\* The half way goes to m when m is even.  When `power` holds, m stands for a
\* power of two: the floats below it lie twice as close, and the number is
\* rounded up to m from m - 1/4 on.
RoundsUp(p, f, m, power) ==
    LET whole == Trim(SubSeq(p, 1, Len(p) - f))
        frac(i) == IF i <= f THEN p[Len(p) - f + i] ELSE 0
    IN  \/ AtLeast(whole, m)
        \/ /\ Succ(whole) = m
           /\ IF power
              THEN frac(1) > 7 \/ (frac(1) = 7 /\ frac(2) >= 5)
              ELSE \/ frac(1) > 5
                   \/ /\ frac(1) = 5
                      /\ (\E i \in 2..f : frac(i) # 0) \/ m[Len(m)] % 2 = 0

\* The digits of the decimal of significant digits sig, q of them before the
\* point, with the zeros q asks for in front or behind.
Padded(sig, q) ==
    [i \in 1..(IF q < 0 THEN -q ELSE 0) |-> 0]
        \o DigitValues(sig)
        \o [i \in 1..(IF q > Len(sig) THEN q - Len(sig) ELSE 0) |-> 0]

\* Whether float() gives, for the decimal of significant digits sig, q of them
\* before the point, the float nearest to t tenths or a larger one: float() gives
\* the float nearest to the decimal.  Both are compared in units of 2^(e - 52),
\* e the binary exponent of t tenths.
ReachesTenths(sig, q, t) ==
    RoundsUp(TimesPow2(Padded(sig, q), 52 - BinaryExponent(t)),
             IF q > Len(sig) THEN 0 ELSE IF q < 0 THEN Len(sig) - q ELSE Len(sig) - q,
             Mantissa(t),
             t = 5 \/ (BinaryExponent(t) >= 0 /\ t = 10 * 2^BinaryExponent(t)))

\* The number of tenths of the decimal of significant digits sig, q of them
\* before the point, truncated.
TruncatedTenths(sig, q) ==
    10 * DigitsToNat([i \in 1..q |-> IF i <= Len(sig) THEN sig[i] ELSE "0"])
        + (IF q >= 0 /\ q + 1 <= Len(sig) THEN AsciiValue(sig[q + 1]) ELSE 0)

\* The float of the decimal number whose significant digits are sig, q of them
\* before the point (q may be negative or exceed the number of digits), in
\* tenths.  A float is held as the tenths, truncated toward zero, of the
\* shortest decimal that float() reads as this float (the decimal repr() writes):
\* for a decimal of at most 15 significant digits that is the decimal itself; a
\* longer one may be read as the float nearest to the next tenth.  A float of
\* 10^8 or more (a decimal of nine digits or more before the point, or one that
\* is rounded up to 10^8) is held as its integer part.
RoundedTenths(sig, q, neg, t) ==
    IF SetMax({i \in 1..Len(sig) : sig[i] # "0"}) > 15 /\ ReachesTenths(sig, q, t + 1)
    THEN IF t + 1 = 1000000000 THEN BigFloat(neg, Str("100000000"))
         ELSE SomeFloat("fin", IF neg THEN -(t + 1) ELSE t + 1)
    ELSE SomeFloat("fin", IF neg THEN -t ELSE t)
DecimalTenths(sig, q, neg) ==
    IF Len(sig) = 0 \/ q < -323 \/ (q = -323 /\ RoundsToZero(sig))
    THEN SomeFloat(IF neg THEN "-0" ELSE "fin", 0)
    ELSE IF q > 309 \/ (q = 309 /\ RoundsToInf(sig))
    THEN SomeFloat(IF neg THEN "-inf" ELSE "inf", 0)
    ELSE IF q < -1 THEN SomeFloat("fin", 0)
    ELSE IF q > 8
    THEN BigFloat(neg, DigitText(FloatInt(Padded(sig, q),
                                          IF q > Len(sig) THEN 0 ELSE Len(sig) - q)))
    ELSE RoundedTenths(sig, q, neg, TruncatedTenths(sig, q))

\* The float of the digits (the mantissa without its point), point of them
\* before the point; sig is the digits without their leading zeros.
DecimalOf(digits, sig, point, neg) ==
    DecimalTenths(sig, point - (Len(digits) - Len(sig)), neg)
Decimal(digits, point, neg) == DecimalOf(digits, StripZeros(digits), point, neg)

\* float() of the mantissa m and, when `exponent` holds, the exponent x of a
\* decimal number without sign.
ParseDecimal(m, x, exponent, neg) ==
    IF MantissaOk(m) /\ (exponent => ExponentOk(x))
    THEN Decimal(Replace(m, <<".">>, <<>>),
                 PointAt(m) + (IF exponent THEN ExponentValue(x) ELSE 0), neg)
    ELSE NoFloat

\* The same, the "e" of the exponent at position e of low, 0 for none.
ParseDecimalAt(low, e, neg) ==
    ParseDecimal(IF e = 0 THEN low ELSE SubSeq(low, 1, e - 1),
                 SubSeq(low, e + 1, Len(low)), e # 0, neg)

\* float() of a lower-cased number without sign, white space and underscores.
ParseUnsigned(low, neg) ==
    IF low = <<"n", "a", "n">> THEN SomeFloat("nan", 0)
    ELSE IF low = <<"i", "n", "f">> \/ low = <<"i", "n", "f", "i", "n", "i", "t", "y">>
    THEN SomeFloat(IF neg THEN "-inf" ELSE "inf", 0)
    ELSE ParseDecimalAt(low, Find(low, <<"e">>), neg)

ParseStripped(t) ==
    IF UnderscoresOk(t)
    THEN ParseUnsigned(Lower(Unsigned(Replace(t, <<"_">>, <<>>))),
                       Len(t) > 0 /\ t[1] = "-")
    ELSE NoFloat

\* What float() makes of a str before it reads it: a character below U+7F stays,
\* any other white space becomes a space, any other decimal digit its ASCII
\* digit, and any other character a question mark.
FloatChar(c, digits) ==
    IF Len(c) = 1 \/ CodeOf(c) < 127 THEN c
    ELSE IF c \in WhiteSpace THEN " "
    ELSE IF c \in DOMAIN digits THEN SubSeq(Digits, digits[c] + 1, digits[c] + 1)
    ELSE "?"
FloatText(s) == [i \in 1..Len(s) |-> FloatChar(s[i], DigitMap)]

\* The white space float() skips around a number: that of ASCII, without the
\* separators U+1C to U+1F that str.strip() removes.
FloatSpace == {" ", "\t", "\n", "\r", "U+B", "U+C"}

\* float(s) for a str s.  White space around the number is skipped; the number is
\* an optional sign, then "nan", "inf" or "infinity" in any case, or digits with
\* an optional point and an optional exponent, an underscore allowed between
\* two digits.
ParseFloat(s) == ParseStripped(StripChars(FloatText(s), FloatSpace))

\* float(n) for an int of ten digits or more, of digits d: OverflowError from
\* 2^1024 - 2^970 on.
LongFloat(neg, d) ==
    IF Len(d) > 309 \/ (Len(d) = 309 /\ RoundsToInf(d)) THEN NoFloat
    ELSE BigFloat(neg, DigitText(FloatInt(DigitValues(d), 0)))

\* float(value)
ToFloat(v) ==
    CASE v.t = "int" ->
            IF -100000000 < v.n /\ v.n < 100000000 THEN SomeFloat("fin", 10 * v.n)
            ELSE BigFloat(v.n < 0, NatToStr(IF v.n < 0 THEN -v.n ELSE v.n))
      [] v.t = "long" -> LongFloat(v.neg, v.d)
      [] v.t = "float" -> SomeFloat(v.k, v.m)
      [] v.t = "str" -> ParseFloat(v.s)
      [] OTHER -> NoFloat

\* Whether a float is finite: a number of tenths, or the negative zero.
Finite(f) == f.k \in {"fin", "-0"}

\* int(x) for a finite float of m tenths: truncation toward zero.
TruncTenths(m) == IF m < 0 THEN -((-m) \div 10) ELSE m \div 10

\* str(x) for a finite float of m tenths: "98.9", "-0.5", "38.0".
FloatToStr(m) ==
    LET a == IF m < 0 THEN -m ELSE m
    IN  (IF m < 0 THEN <<"-">> ELSE <<>>)
            \o NatToStr(a \div 10) \o <<".">> \o NatToStr(a % 10)

\* The hexadecimal digits of n in small letters, `width` of them.
RECURSIVE HexPadded(_, _)
HexPadded(n, width) ==
    IF width = 0 THEN <<>>
    ELSE HexPadded(n \div 16, width - 1)
            \o <<SubSeq("0123456789abcdef", (n % 16) + 1, (n % 16) + 1)>>

\* What repr() writes for the character c of code point n, no printable ASCII:
\* c when it is printable, else an escape of two, four or eight digits.
ReprCode(c, n) ==
    IF ~InRuns(n, NonPrintableRuns) THEN <<c>>
    ELSE IF n < 256 THEN <<"\\", "x">> \o HexPadded(n, 2)
    ELSE IF n < 65536 THEN <<"\\", "u">> \o HexPadded(n, 4)
    ELSE <<"\\", "U">> \o HexPadded(n, 8)

\* What repr() writes for the character c of a str it puts between the quotes
\* `quote`: an escape for the backslash, the quote, the tabulation, the line
\* feed, the carriage return and any character that is not printable.
ReprChar(c, quote) ==
    IF c = "\\" \/ c = quote THEN <<"\\", c>>
    ELSE IF c = "\t" THEN <<"\\", "t">>
    ELSE IF c = "\n" THEN <<"\\", "n">>
    ELSE IF c = "\r" THEN <<"\\", "r">>
    ELSE IF Len(c) = 1 THEN <<c>>
    ELSE ReprCode(c, CodeOf(c))

\* The quote repr() puts around s: the single one, or the double one when s holds
\* a single quote and no double quote.
ReprQuote(s) == IF Contains(s, <<"'">>) /\ ~Contains(s, <<"\"">>) THEN "\"" ELSE "'"

\* repr(s) for a str.
ReprStr(s) ==
    <<ReprQuote(s)>>
        \o Join([i \in 1..Len(s) |-> ReprChar(s[i], ReprQuote(s))], <<>>)
        \o <<ReprQuote(s)>>

\* Whether str(value) raises: str() of an int of more than 4300 digits raises
\* ValueError (4300 is the limit sys.get_int_max_str_digits() of the interpreter
\* as it is started by default), and so does str() of a list that holds such an
\* int.
StrRaises(v) ==
    CASE v.t = "long" -> Len(v.d) > 4300
      [] v.t = "list" -> \E i \in 1..Len(v.l) : v.l[i].t = "long" /\ Len(v.l[i].d) > 4300
      [] OTHER -> FALSE

\* str(value), Raised when it raises; for a list, of str, int, float and None
\* elements.
PyStrFlat(v) ==
    CASE v.t = "str" -> v.s
      [] v.t = "int" -> IntToStr(v.n)
      [] v.t = "long" ->
            IF StrRaises(v) THEN Raised ELSE (IF v.neg THEN <<"-">> ELSE <<>>) \o v.d
      [] v.t = "float" ->
            (CASE v.k = "fin" -> FloatToStr(v.m)
               [] v.k = "-0" -> Str("-0.0")
               [] v.k = "nan" -> Str("nan")
               [] v.k = "inf" -> Str("inf")
               [] OTHER -> Str("-inf"))
      [] v.t = "none" -> Str("None")

PyStr(v) ==
    IF StrRaises(v) THEN Raised
    ELSE IF v.t = "list"
    THEN <<"[">>
           \o Join([i \in 1..Len(v.l) |->
                      IF v.l[i].t = "str" THEN ReprStr(v.l[i].s) ELSE PyStrFlat(v.l[i])],
                   <<",", " ">>)
           \o <<"]">>
    ELSE PyStrFlat(v)

---------------------------------------------------------------------------
(* Helpers of description_builder.py *)

\* _safe_clean: "" for None, else the stripped str(value), and "" from the
\* handler when str(value) raises.  Returns a character sequence.
SafeClean(value) ==
    IF value.t = "none" \/ StrRaises(value) THEN <<>> ELSE Strip(PyStr(value))

\* The int of sign neg and of digits d.
LongOf(neg, d) ==
    IF Len(d) > 9 THEN PLong(neg, d) ELSE PInt(IF neg THEN -DigitsToNat(d) ELSE DigitsToNat(d))

\* int(f) for what float() gave, None when float() or int() raises.
IntOf(f) ==
    IF ~f.ok THEN None
    ELSE IF Finite(f) THEN PInt(TruncTenths(f.m))
    ELSE IF f.k \in {"big", "-big"} THEN LongOf(f.k = "-big", f.d)
    ELSE None

\* math.floor(f) in place of int(f).
FloorOf(f) ==
    IF f.ok /\ Finite(f)
    THEN PInt(IF f.m < 0 THEN -((9 - f.m) \div 10) ELSE f.m \div 10)
    ELSE IntOf(f)

\* Mutant of FormatPercent: math.floor(float(value)) in place of int(float(value)).
FormatPercent_Floor(value) ==
    IF value.t = "none" \/ (value.t = "str" /\ value.s = <<>>) THEN None
    ELSE FloorOf(ToFloat(value))

\* _format_percent: None for None and for "", else int(float(value)), and None
\* when float() or int() raises (a str that is no number, a list, nan, inf).
FormatPercent(value) ==
    IF value.t = "none" \/ (value.t = "str" /\ value.s = <<>>) THEN None
    ELSE IntOf(ToFloat(value))

TAILLE_BASSE == Str("taille basse")
TAILLE_HAUTE == Str("taille haute")
TAILLE_MOYENNE == Str("taille moyenne")

\* The label of the float f that float(rise_cm) gave: below 23 low, from 26 on
\* high, else (nan, or no float) mid.
RiseOf(f) ==
    IF ~f.ok THEN TAILLE_MOYENNE
    ELSE IF f.k \in {"-inf", "-big"} \/ (Finite(f) /\ f.m < 230) THEN TAILLE_BASSE
    ELSE IF f.k \in {"inf", "big"} \/ (Finite(f) /\ f.m >= 260) THEN TAILLE_HAUTE
    ELSE TAILLE_MOYENNE

\* The same with the low boundary taken as `value <= 23`.
RiseOf_LowInclusive(f) ==
    IF ~f.ok THEN TAILLE_MOYENNE
    ELSE IF f.k \in {"-inf", "-big"} \/ (Finite(f) /\ f.m <= 230) THEN TAILLE_BASSE
    ELSE IF f.k \in {"inf", "big"} \/ (Finite(f) /\ f.m >= 260) THEN TAILLE_HAUTE
    ELSE TAILLE_MOYENNE

\* Mutant of RiseFromCm: the low boundary taken as `value <= 23`.
RiseFromCm_LowInclusive(rise_cm) ==
    IF rise_cm.t = "none" THEN TAILLE_MOYENNE ELSE RiseOf_LowInclusive(ToFloat(rise_cm))

\* The label _format_rise_label derives from rise_cm alone (lines 49-60).
RiseFromCm(rise_cm) ==
    IF rise_cm.t = "none" THEN TAILLE_MOYENNE ELSE RiseOf(ToFloat(rise_cm))

\* Mutant of FormatRiseLabel: a usable rise_cm decides before rise_type is read.
FormatRiseLabel_CmFirst(rise_type, rise_cm) ==
    IF rise_cm.t # "none" /\ ToFloat(rise_cm).ok /\ ToFloat(rise_cm).k # "nan"
    THEN RiseFromCm(rise_cm)
    ELSE IF rise_type.t # "str" THEN TAILLE_MOYENNE
    ELSE IF Contains(Lower(rise_type.s), Str("basse")) THEN TAILLE_BASSE
    ELSE IF Contains(Lower(rise_type.s), Str("haute")) THEN TAILLE_HAUTE
    ELSE TAILLE_MOYENNE

\* _format_rise_label.  A truthy rise_type that is no str has no strip(): the
\* AttributeError is caught by the outer handler, which returns the mid label.
FormatRiseLabel(rise_type, rise_cm) ==
    IF Truthy(rise_type) /\ rise_type.t # "str" THEN TAILLE_MOYENNE
    ELSE LET normalized == IF Truthy(rise_type) THEN Lower(Strip(rise_type.s)) ELSE <<>>
         IN  IF normalized \in {Str("low"), Str("ultra_low")}
                  \/ Contains(normalized, Str("basse"))
             THEN TAILLE_BASSE
             ELSE IF normalized = Str("high") \/ Contains(normalized, Str("haute"))
             THEN TAILLE_HAUTE
             ELSE IF normalized = Str("mid") \/ Contains(normalized, Str("moy"))
             THEN TAILLE_MOYENNE
             ELSE RiseFromCm(rise_cm)

\* The text of the sentences, as the source file holds it.
COMPOSITION_PREFIX == Str("Composition : ")
ET == Str(" et ")
COTON_SUFFIX == Str("% coton")
ELASTHANNE_SUFFIX == Str("% {221A}{A9}lasthanne")
LAINE_SUFFIX == Str("% laine")
COMPOSITION_NON_LISIBLE == Str("Composition non lisible (voir {221A}{A9}tiquettes en photo).")
PULL_ETIQUETTE_PREFIX == Str("Composition ({221A}{A9}tiquette) : ")
PULL_COMPOSITION_NON_LISIBLE == Str("Composition non lisible (voir photos).")
TRES_BON_ETAT == Str("Tr{221A}{AE}s bon {221A}{A9}tat.")
TRACES_PREFIX == Str("Tr{221A}{AE}s bon {221A}{A9}tat. L{221A}{A9}g{221A}{AE}res traces d'usage : ")
VOIR_PHOTOS_SUFFIX == Str(" (voir photos).")
VOIR_PHOTOS == Str("voir photos")
DOT == Str(".")

\* The fibres a composition sentence lists: "<n>% <fibre>" for each percentage
\* that _format_percent parses, cotton first.
Fibers(cotton_val, other_val, other_suffix) ==
    (IF cotton_val.t # "none" THEN <<PyStrFlat(cotton_val) \o COTON_SUFFIX>> ELSE <<>>)
        \o (IF other_val.t # "none" THEN <<PyStrFlat(other_val) \o other_suffix>> ELSE <<>>)

\* _build_composition
BuildComposition(cotton_percent, elasthane_percent) ==
    LET fibers == Fibers(FormatPercent(cotton_percent),
                         FormatPercent(elasthane_percent), ELASTHANNE_SUFFIX)
    IN  IF Len(fibers) > 0
        THEN COMPOSITION_PREFIX \o Join(fibers, ET) \o DOT
        ELSE COMPOSITION_NON_LISIBLE

\* Mutant of BuildPullTommyComposition: a material label, when there is one,
\* is preferred to the percentages.
BuildPullTommyComposition_LabelFirst(material, cotton_percent, wool_percent) ==
    LET fibers == Fibers(FormatPercent(cotton_percent),
                         FormatPercent(wool_percent), LAINE_SUFFIX)
        clean_material == SafeClean(material)
    IN  IF Len(clean_material) > 0
        THEN PULL_ETIQUETTE_PREFIX \o clean_material \o DOT
        ELSE IF Len(fibers) > 0
        THEN COMPOSITION_PREFIX \o Join(fibers, ET) \o DOT
        ELSE PULL_COMPOSITION_NON_LISIBLE

\* _build_pull_tommy_composition
BuildPullTommyComposition(material, cotton_percent, wool_percent) ==
    LET fibers == Fibers(FormatPercent(cotton_percent),
                         FormatPercent(wool_percent), LAINE_SUFFIX)
        clean_material == SafeClean(material)
    IN  IF Len(fibers) > 0
        THEN COMPOSITION_PREFIX \o Join(fibers, ET) \o DOT
        ELSE IF Len(clean_material) > 0
        THEN PULL_ETIQUETTE_PREFIX \o clean_material \o DOT
        ELSE PULL_COMPOSITION_NON_LISIBLE

\* _normalize_defects.  With a "voir photos" marker the text kept is cut from
\* `lowered`, the lower-cased copy, not from `base`.
NormalizeDefects(defects) ==
    LET base == SafeClean(defects)
        lowered == Lower(base)
        at == Find(lowered, VOIR_PHOTOS)
        cut == IF at # 0 THEN Strip(SubSeq(lowered, 1, at - 1)) ELSE Strip(base)
    IN  IF Len(base) = 0 THEN <<>> ELSE RStripChars(cut, {".", " ", ",", ";"})

\* _build_state_sentence
BuildStateSentence(defects) ==
    LET clean_defects == NormalizeDefects(defects)
    IN  IF Len(clean_defects) = 0 THEN TRES_BON_ETAT
        ELSE TRACES_PREFIX \o clean_defects \o VOIR_PHOTOS_SUFFIX

MARQUE == Str("marque :")
COULEUR == Str("couleur :")
SKU == Str("sku")
NL == Str("\n")

\* Mutant of IsFooterLine: the marker is looked for anywhere in the line.
IsFooterLine_Anywhere(line) ==
    LET lowered == Lower(Strip(line))
    IN  Contains(lowered, Str("marque")) \/ Contains(lowered, Str("couleur"))
            \/ Contains(lowered, SKU)

\* The test _strip_footer_lines makes on one line (lines 235-244).
IsFooterLine(line) ==
    LET lowered == Lower(Strip(line))
    IN  StartsWith(lowered, MARQUE) \/ StartsWith(lowered, COULEUR)
            \/ StartsWith(lowered, SKU)

\* filtered_lines of _strip_footer_lines: the lines that pass the test.
DropFooterLines(lines) == SelectSeq(lines, LAMBDA line : ~IsFooterLine(line))

\* _strip_footer_lines on a str.
StripFooterLines(description) ==
    IF Len(description) = 0 THEN <<>>
    ELSE Join(DropFooterLines(Split(description, NL)), NL)

\* _strip_footer_lines on any value: "" for a falsy one; a truthy value that is
\* no str has no split(), and the handler returns it as it came.
StripFooterLinesOf(description) ==
    IF ~Truthy(description) THEN PStr(<<>>)
    ELSE IF description.t # "str" THEN description
    ELSE PStr(StripFooterLines(description.s))

COUPE_NON_PRECISEE == Str("coupe non pr{221A}{A9}cis{221A}{A9}e")
BOOTCUT_EVASE == Str("Bootcut/{221A}{E2}vas{221A}{A9}")
\* boot_markers of _normalize_fit_display (lines 289-296)
FitBootMarkers ==
    {Str("boot"), Str("flare"), Str("{221A}{A9}vas"), Str("evase"), Str("curve"),
     Str("curvy")}

\* _normalize_fit_display.  A truthy argument that is no str has no strip(): the
\* handler returns the placeholder.
NormalizeFitDisplay(raw_fit, model_hint) ==
    IF ~Truthy(raw_fit) /\ ~Truthy(model_hint) THEN COUPE_NON_PRECISEE
    ELSE IF (Truthy(raw_fit) /\ raw_fit.t # "str")
              \/ (Truthy(model_hint) /\ model_hint.t # "str")
    THEN COUPE_NON_PRECISEE
    ELSE LET value == Strip(IF Truthy(raw_fit) THEN raw_fit.s ELSE model_hint.s)
             low == Lower(value)
             secondary_low ==
                 IF Truthy(model_hint) THEN Lower(Strip(model_hint.s)) ELSE <<>>
         IN  IF \E m \in FitBootMarkers : Contains(low, m) \/ Contains(secondary_low, m)
             THEN BOOTCUT_EVASE
             ELSE IF Contains(low, Str("skinny")) \/ Contains(low, Str("slim"))
             THEN Str("Skinny")
             ELSE IF Contains(low, Str("straight")) \/ Contains(low, Str("droit"))
             THEN Str("Straight/Droit")
             ELSE IF Len(value) > 0 THEN value ELSE COUPE_NON_PRECISEE

---------------------------------------------------------------------------
(* Hashtags *)

\* Whether token is an element of the list tokens.
InList(token, list) == \E i \in 1..Len(list) : list[i] = token

\* Mutant of Add: the token is appended without the membership test.
Add_NoMembershipTest(list, token) ==
    IF Truthy(token) THEN Append(list, token) ELSE list

\* add() of _build_hashtags (lines 114-116) and _add_tag() of the knitwear
\* composer (lines 497-499): the list after add(token).  The token and the
\* elements of the list are Python values.
Add(list, token) ==
    IF Truthy(token) /\ ~InList(token, list) THEN Append(list, token) ELSE list

\* The token list after the calls add(addSeq[1]), ..., add(addSeq[k]).
RECURSIVE AddUpTo(_, _, _)
AddUpTo(list, addSeq, k) ==
    IF k = 0 THEN list ELSE Add(AddUpTo(list, addSeq, k - 1), addSeq[k])

\* The token list after every add() call of addSeq, in order.
AddAll(list, addSeq) == AddUpTo(list, addSeq, Len(addSeq))

\* The str values of a sequence of texts.
Texts(texts) == [i \in 1..Len(texts) |-> PStr(texts[i])]

\* sep.join(list), every element of the list a str.
JoinTokens(list, sep) == Join([i \in 1..Len(list) |-> list[i].s], sep)

HASH == Str("#")
SPACE == Str(" ")
QUOTE == Str("'")

\* re.search(r"(\d{3})", s): the first three consecutive digits, "" if none.
FirstThreeAt(s, at) == IF at = {} THEN <<>> ELSE SubSeq(s, SetMin(at), SetMin(at) + 2)
FirstThreeDigits(s) ==
    FirstThreeAt(s, {i \in 1..(Len(s) - 2) : \A j \in i..(i + 2) : IsDigitChar(s[j])})

\* [t for t in list if t not in drop]
RECURSIVE Without(_, _)
Without(list, drop) ==
    IF Len(list) = 0 THEN <<>>
    ELSE IF list[1] \in drop THEN Without(Tail(list), drop)
    ELSE <<list[1]>> \o Without(Tail(list), drop)

\* token with "#" before it
Hashed(token_seq) == [i \in 1..Len(token_seq) |-> HASH \o token_seq[i]]

\* What the loop of lines 145-155 keeps of a word of the model: the word without
\* its quotes and hyphens, unless it is the model number, a number, one of four
\* words, or empty.
ModelToken(token_clean, model_number) ==
    IF \/ token_clean = model_number
       \/ IsDigit(token_clean)
       \/ token_clean \in {Str("demi"), Str("curve"), Str("curvy"), Str("cut")}
       \/ Len(token_clean) = 0
    THEN <<>>
    ELSE <<token_clean>>

\* model_tokens of _build_hashtags after the loop of lines 145-155.
RECURSIVE ModelTokens(_, _)
ModelTokens(words, model_number) ==
    IF Len(words) = 0 THEN <<>>
    ELSE ModelToken(Replace(Replace(words[1], QUOTE, <<>>), Str("-"), <<>>), model_number)
            \o ModelTokens(Tail(words), model_number)

\* Whether the list holds both words.
HasBoth(list, first, second) == InList(Str(first), list) /\ InList(Str(second), list)

\* The two words when the list holds both, to take them out of it.
Merged(list, first, second) ==
    IF HasBoth(list, first, second) THEN {Str(first), Str(second)} ELSE {}

\* The add() calls of lines 131-132 and 157-169, for the model number and the
\* model tokens: "super" with "skinny", and "super" with "slim", looked up in the
\* tokens of the loop, make one tag and leave the list.
ModelTags(model_number, model_tokens) ==
    (IF Len(model_number) > 0
     THEN <<Str("#levis") \o model_number, HASH \o model_number>> ELSE <<>>)
    \o (IF HasBoth(model_tokens, "super", "skinny") THEN <<Str("#superskinny")>> ELSE <<>>)
    \o (IF HasBoth(model_tokens, "super", "slim") THEN <<Str("#superslim")>> ELSE <<>>)
    \o Hashed(Without(model_tokens, Merged(model_tokens, "super", "skinny")
                                        \cup Merged(model_tokens, "super", "slim")))

\* The same for model_low and the model number found in it.
ModelTagsOf(model_low, model_number) ==
    ModelTags(model_number,
              ModelTokens(SplitWs(Replace(model_low, Str("/"), SPACE)), model_number))

\* The same for model_low.
ModelAddsLow(model_low) == ModelTagsOf(model_low, FirstThreeDigits(model_low))

\* The add() calls of the `if model:` block (lines 127-169).
ModelAdds(model) == ModelAddsLow(Strip(Lower(model)))

\* fit_token of _build_hashtags (lines 172-182).
FitToken(fit) ==
    LET fit_key == Replace(Strip(Lower(fit)), Str("{221A}{A9}"), Str("e"))
    IN  IF \E m \in {Str("bootcut"), Str("boot cut"), Str("boot-cut"), Str("flare"),
                     Str("curve"), Str("curvy")} : Contains(fit_key, m)
        THEN Str("bootcut")
        ELSE IF Contains(fit_key, Str("skinny")) \/ Contains(fit_key, Str("slim"))
        THEN Str("skinny")
        ELSE IF Contains(fit_key, Str("straight")) \/ Contains(fit_key, Str("droit"))
        THEN Str("straightdroit")
        ELSE Replace(Replace(fit_key, SPACE, <<>>), Str("/"), <<>>)

\* The texts that the add() calls of _build_hashtags are given, in order; every
\* argument of _build_hashtags is a str here.
HashtagAdds(brand, model, fit, color, size_fr, size_us, length, gender, rise_label, durin_tag) ==
    <<HASH \o (IF Len(brand) > 0 THEN Replace(Lower(brand), QUOTE, <<>>)
               ELSE Str("levis")),
      Str("#jeanlevis"), Str("#jeandenim")>>
    \o (IF Len(gender) > 0
        THEN <<Str("#levis") \o Replace(Lower(gender), SPACE, <<>>)>> ELSE <<>>)
    \o (IF Len(model) > 0 THEN ModelAdds(model) ELSE <<>>)
    \o (IF Len(fit) > 0 THEN <<HASH \o FitToken(fit) \o Str("jean")>> ELSE <<>>)
    \o (IF Len(color) > 0
        THEN <<Str("#jean") \o Replace(Lower(color), SPACE, <<>>)>> ELSE <<>>)
    \o (IF Len(Replace(Lower(rise_label), SPACE, <<>>)) > 0
        THEN <<HASH \o Replace(Lower(rise_label), SPACE, <<>>)>> ELSE <<>>)
    \o (IF Len(size_fr) > 0 THEN <<Str("#fr") \o Lower(size_fr)>> ELSE <<>>)
    \o (IF Len(size_us) > 0
        THEN <<Str("#w") \o Replace(Lower(size_us), Str("w"), <<>>)>> ELSE <<>>)
    \o (IF Len(length) > 0
        THEN <<Str("#l") \o Replace(Lower(length), Str("l"), <<>>)>> ELSE <<>>)
    \o (IF Len(durin_tag) > 0 THEN <<durin_tag>> ELSE <<>>)

\* The text of an argument of _build_hashtags: "" for a falsy one.
TextOf(v) == IF Truthy(v) /\ v.t = "str" THEN v.s ELSE <<>>

\* A truthy value that is no str: lower() raises AttributeError on it, and join()
\* raises TypeError on a list that holds it.
NoStr(v) == Truthy(v) /\ v.t # "str"

\* The arguments of _build_hashtags in the order in which the code reads them;
\* durin_tag, read last, is passed to add() as it is.
ReadOrder ==
    <<"brand", "gender", "model", "fit", "color", "rise_label", "size_fr", "size_us",
      "length">>

\* The position in ReadOrder of the first argument on which lower() raises; one
\* more than the last position when none raises.
RaisesAt(a) ==
    SetMin({k \in 1..Len(ReadOrder) : NoStr(a[ReadOrder[k]])} \cup {Len(ReadOrder) + 1})

\* The text of the argument at position k of ReadOrder as far as the code gets:
\* "" for an argument it does not reach.
ReadText(a, k, stop) == IF k < stop THEN TextOf(a[ReadOrder[k]]) ELSE <<>>

\* The add() calls made before the argument at position stop raises.
AddsBefore(a, stop) ==
    IF stop = 1 THEN <<>>
    ELSE Texts(HashtagAdds(ReadText(a, 1, stop), ReadText(a, 3, stop), ReadText(a, 4, stop),
                           ReadText(a, 5, stop), ReadText(a, 7, stop), ReadText(a, 8, stop),
                           ReadText(a, 9, stop), ReadText(a, 2, stop), ReadText(a, 6, stop),
                           <<>>))
         \o (IF stop > Len(ReadOrder) /\ Truthy(a.durin_tag) THEN <<a.durin_tag>> ELSE <<>>)

\* _build_hashtags on Python values: the arguments of the add() calls, in order.
\* A truthy argument that is no str raises where the code calls lower() on it,
\* after the add() calls made for the arguments read before it; durin_tag is
\* added whatever its type.
BuildHashtagAdds(a) == AddsBefore(a, RaisesAt(a))

\* Whether _build_hashtags raises inside its try block: at a lower(), or at the
\* join() of a list that holds a durin_tag that is no str.
BuildHashtagsRaises(a) == \E k \in DOMAIN a : NoStr(a[k])

\* _build_hashtags: the tokens joined with single spaces, "" when the body
\* raises.
BuildHashtags(a) ==
    IF BuildHashtagsRaises(a) THEN <<>>
    ELSE JoinTokens(AddAll(<<>>, BuildHashtagAdds(a)), SPACE)

---------------------------------------------------------------------------
(* Composers *)

\* text or default, on strings.
OrText(text, default) == IF Len(text) > 0 THEN text ELSE default

\* features.get(key) on a dict.
Get(features, key) ==
    IF key \in DOMAIN features.d THEN features.d[key] ELSE None

\* Whether features has a get(): a value that is no dict raises AttributeError
\* at the first features.get(...), inside the composer's try block.
IsMapping(features) == features.t = "dict"

LEVIS == Str("Levi's")
FEMME == Str("femme")
EQUIVALENT_OPEN == Str(" US ({221A}{A9}quivalent ")
A_GRAVE_SRC == Str("{221A}{2020} ")
SILHOUETTE == Str("pour une silhouette ajust{221A}{A9}e et confortable")
TAILLE_NON_PRECISEE == Str("Taille non pr{221A}{A9}cis{221A}{A9}e.")
LAVE_SRC == Str("lav{221A}{A9}")
NUANCE == Str(" l{221A}{A9}g{221A}{AE}rement d{221A}{A9}lav{221A}{A9}")
COLOR_TAIL == Str(", tr{221A}{AE}s polyvalent et facile {221A}{2020} assortir.")
COLORIS_NON_PRECISE == Str("Coloris non pr{221A}{A9}cis{221A}{A9}, se r{221A}{A9}f{221A}{A9}rer aux photos pour les nuances.")
CLOSURE == Str("Fermeture zipp{221A}{A9}e + bouton grav{221A}{A9} Levi{201A}{C4}{F4}s.")
LOGISTICS == Str("{F8FF}{FC}{EC}{E8} Mesures visibles en photo.")
SHIPPING == Str("{F8FF}{FC}{EC}{B6} Envoi rapide et soign{221A}{A9}")
CTA_LOT == Str("{F8FF}{FC}{ED}{B0} Pensez {221A}{2020} un lot pour profiter d{201A}{C4}{F4}une r{221A}{A9}duction suppl{221A}{A9}mentaire et {221A}{A9}conomiser des frais d{201A}{C4}{F4}envoi !")
CTA_DURIN_PREFIX == Str("{201A}{FA}{AE} Retrouvez tous mes articles Levi{201A}{C4}{F4}s {221A}{2020} votre taille ici {F8FF}{FC}{EB}{E2} ")
DURIN_PREFIX == Str("#durin31fr")
NLNL == Str("\n\n")

\* The size sentence of the denim composer (lines 351-369).
JeanSizeSentence(size_us, size_fr, fit, rise_label) ==
    LET parts ==
            (IF Len(size_us) > 0 /\ Len(size_fr) > 0
             THEN <<Str("Taille ") \o size_us \o EQUIVALENT_OPEN \o size_fr \o Str(" FR)")>>
             ELSE IF Len(size_fr) > 0 THEN <<Str("Taille ") \o size_fr \o Str(" FR")>>
             ELSE IF Len(size_us) > 0 THEN <<Str("Taille ") \o size_us \o Str(" US")>>
             ELSE <<>>)
            \o (IF Len(fit) > 0 THEN <<Str("coupe ") \o fit>> ELSE <<>>)
            \o (IF Len(rise_label) > 0 THEN <<A_GRAVE_SRC \o rise_label>> ELSE <<>>)
        all == IF Len(parts) > 0 THEN Append(parts, SILHOUETTE) ELSE parts
        sentence == Strip(Join(all, Str(", ")))
    IN  IF Len(sentence) > 0 THEN sentence \o DOT ELSE TAILLE_NON_PRECISEE

\* The color sentence of the denim composer (lines 371-378).
JeanColorSentence(color) ==
    IF Len(color) > 0
    THEN Str("Coloris ") \o color
            \o (IF Contains(Lower(color), LAVE_SRC) THEN <<>> ELSE NUANCE)
            \o COLOR_TAIL
    ELSE COLORIS_NON_PRECISE

\* Mutant of JeanFields: features.defects is taken first, ai_defects only when
\* it is empty.
JeanFields_FeaturesDefectsFirst(features, ai_defects) ==
    [brand |-> OrText(SafeClean(Get(features, "brand")), LEVIS),
     model |-> SafeClean(Get(features, "model")),
     fit |-> NormalizeFitDisplay(PStr(SafeClean(Get(features, "fit"))),
                                 PStr(SafeClean(Get(features, "model")))),
     color |-> SafeClean(Get(features, "color")),
     size_fr |-> SafeClean(Get(features, "size_fr")),
     size_us |-> SafeClean(Get(features, "size_us")),
     length |-> SafeClean(Get(features, "length")),
     gender |-> OrText(SafeClean(Get(features, "gender")), FEMME),
     rise_label |-> FormatRiseLabel(Get(features, "rise_type"),
                                    Get(features, "rise_cm")),
     defects |-> Or(Get(features, "defects"), ai_defects),
     durin_tag |-> DURIN_PREFIX
                      \o Lower(OrText(SafeClean(Get(features, "size_fr")), Str("nc")))]

\* The try block of build_jean_levis_description (lines 329-426), features a
\* dict: the fields read from it, the add() calls of the hashtag line, and the
\* paragraphs before the join.
JeanFields(features, ai_defects) ==
    [brand |-> OrText(SafeClean(Get(features, "brand")), LEVIS),
     model |-> SafeClean(Get(features, "model")),
     fit |-> NormalizeFitDisplay(PStr(SafeClean(Get(features, "fit"))),
                                 PStr(SafeClean(Get(features, "model")))),
     color |-> SafeClean(Get(features, "color")),
     size_fr |-> SafeClean(Get(features, "size_fr")),
     size_us |-> SafeClean(Get(features, "size_us")),
     length |-> SafeClean(Get(features, "length")),
     gender |-> OrText(SafeClean(Get(features, "gender")), FEMME),
     rise_label |-> FormatRiseLabel(Get(features, "rise_type"),
                                    Get(features, "rise_cm")),
     defects |-> Or(ai_defects, Get(features, "defects")),
     durin_tag |-> DURIN_PREFIX
                      \o Lower(OrText(SafeClean(Get(features, "size_fr")), Str("nc")))]

JeanHashtagAdds(f) ==
    Texts(HashtagAdds(f.brand, f.model, f.fit, f.color, f.size_fr, f.size_us, f.length,
                      f.gender, f.rise_label, f.durin_tag))

\* Mutant of JeanParagraphs: the state sentence is placed before the closure
\* sentence.
JeanParagraphs_StateBeforeClosure(f, features) ==
    << Str("Jean ") \o f.brand
          \o (IF Len(f.model) > 0 THEN SPACE \o f.model ELSE <<>>)
          \o Str(" pour ") \o f.gender \o DOT,
       JeanSizeSentence(f.size_us, f.size_fr, f.fit, f.rise_label),
       JeanColorSentence(f.color),
       BuildComposition(Get(features, "cotton_percent"),
                        Get(features, "elasthane_percent")),
       BuildStateSentence(f.defects),
       CLOSURE,
       LOGISTICS,
       SHIPPING,
       CTA_DURIN_PREFIX \o f.durin_tag,
       CTA_LOT,
       JoinTokens(AddAll(<<>>, JeanHashtagAdds(f)), SPACE) >>

\* The paragraphs of the denim composer before the join (lines 343-422); f is
\* the fields read from features.
JeanParagraphs(f, features) ==
    << Str("Jean ") \o f.brand
          \o (IF Len(f.model) > 0 THEN SPACE \o f.model ELSE <<>>)
          \o Str(" pour ") \o f.gender \o DOT,
       JeanSizeSentence(f.size_us, f.size_fr, f.fit, f.rise_label),
       JeanColorSentence(f.color),
       BuildComposition(Get(features, "cotton_percent"),
                        Get(features, "elasthane_percent")),
       CLOSURE,
       BuildStateSentence(f.defects),
       LOGISTICS,
       SHIPPING,
       CTA_DURIN_PREFIX \o f.durin_tag,
       CTA_LOT,
       JoinTokens(AddAll(<<>>, JeanHashtagAdds(f)), SPACE) >>

\* Mutant of BuildJeanLevisDescription: no handler around the body, the
\* AttributeError of features.get leaves the function.
BuildJeanLevisDescription_NoHandler(features, ai_description, ai_defects) ==
    IF IsMapping(features)
    THEN PStr(StripFooterLines(Join(NonEmpty(JeanParagraphs(JeanFields(features, ai_defects), features)), NLNL)))
    ELSE Raised

\* build_jean_levis_description
BuildJeanLevisDescription(features, ai_description, ai_defects) ==
    IF IsMapping(features)
    THEN PStr(StripFooterLines(Join(NonEmpty(JeanParagraphs(JeanFields(features, ai_defects), features)), NLNL)))
    ELSE PStr(SafeClean(ai_description))

TAILLE_ESTIMEE_PREFIX == Str("Taille estim{221A}{A9}e ")
TAILLE_ESTIMEE_SUFFIX == Str(". Estim{221A}{A9}e {221A}{2020} la main {221A}{2020} partir des mesures {221A}{2020} plat.")
TAILLE_ETIQUETTE_PREFIX == Str("Taille indiqu{221A}{A9}e sur {221A}{A9}tiquette : ")
PULL_LOGISTICS == Str("Envoi rapide et soign{221A}{A9}. Article conforme aux photos.")
COMMA == Str(",")

\* The size sentence of the knitwear composer (lines 472-480); size_source and
\* measurement_mode are the cleaned, lower-cased fields.
PullSizeSentence(size, size_source, measurement_mode) ==
    IF Len(size) > 0
    THEN IF size_source = Str("estimated") \/ measurement_mode = Str("mesures")
         THEN TAILLE_ESTIMEE_PREFIX \o size \o TAILLE_ESTIMEE_SUFFIX
         ELSE TAILLE_ETIQUETTE_PREFIX \o size \o DOT
    ELSE TAILLE_NON_PRECISEE

\* colors of the knitwear composer (lines 456-464): the cleaned elements of a
\* list that are not empty, joined with ", "; the cleaned value otherwise.
PullColors(colors_raw) ==
    IF colors_raw.t = "list"
    THEN Join(NonEmpty([i \in 1..Len(colors_raw.l) |-> SafeClean(colors_raw.l[i])]),
              Str(", "))
    ELSE SafeClean(colors_raw)

\* The fields the knitwear composer reads (lines 442-464).
PullFields(features, ai_defects) ==
    [brand |-> OrText(SafeClean(Get(features, "brand")), Str("Tommy Hilfiger")),
     garment_type |-> OrText(SafeClean(Get(features, "garment_type")), Str("pull")),
     gender |-> OrText(SafeClean(Get(features, "gender")), FEMME),
     neckline |-> SafeClean(Get(features, "neckline")),
     pattern |-> SafeClean(Get(features, "pattern")),
     material |-> SafeClean(Get(features, "material")),
     colors |-> PullColors(Get(features, "main_colors")),
     size |-> SafeClean(Get(features, "size")),
     size_source |-> Lower(SafeClean(Get(features, "size_source"))),
     measurement_mode |-> Lower(SafeClean(Get(features, "measurement_mode"))),
     defects |-> Or(ai_defects, Get(features, "defects"))]

\* clean_color of each piece of the colour list (line 508).
PullColorTokens(pieces) ==
    [i \in 1..Len(pieces) |-> Replace(Lower(Strip(pieces[i])), SPACE, <<>>)]

\* The _add_tag() calls of the knitwear composer (lines 501-512), in order.
PullHashtagAdds(f) ==
    Texts(<<Str("#tommyhilfiger"),
            HASH \o Lower(Replace(f.garment_type, SPACE, <<>>)),
            HASH \o Lower(f.gender)>>
          \o (IF Len(f.colors) > 0
              THEN Hashed(NonEmpty(PullColorTokens(Split(f.colors, COMMA)))) ELSE <<>>)
          \o (IF Len(f.size) > 0 THEN <<Str("#taille") \o Lower(f.size)>> ELSE <<>>))

\* Mutant of PullParagraphs: the state sentence is placed before the composition.
PullParagraphs_StateBeforeComposition(f, features) ==
    << Strip(Capitalize(f.garment_type) \o SPACE \o f.brand
                \o Str(" pour ") \o f.gender) \o DOT,
       PullSizeSentence(f.size, f.size_source, f.measurement_mode),
       Strip(Join(NonEmpty(<<
           IF Len(f.neckline) > 0 THEN Str("Col ") \o f.neckline \o DOT ELSE <<>>,
           IF Len(f.pattern) > 0 THEN Str("Motif : ") \o f.pattern \o DOT ELSE <<>>,
           IF Len(f.colors) > 0 THEN Str("Coloris : ") \o f.colors \o DOT ELSE <<>> >>),
           SPACE)),
       BuildStateSentence(f.defects),
       BuildPullTommyComposition(PStr(f.material), Get(features, "cotton_percent"),
                                 Get(features, "wool_percent")),
       PULL_LOGISTICS,
       JoinTokens(AddAll(<<>>, PullHashtagAdds(f)), SPACE) >>

\* The paragraphs of the knitwear composer before the join (lines 466-527).
PullParagraphs(f, features) ==
    << Strip(Capitalize(f.garment_type) \o SPACE \o f.brand
                \o Str(" pour ") \o f.gender) \o DOT,
       PullSizeSentence(f.size, f.size_source, f.measurement_mode),
       Strip(Join(NonEmpty(<<
           IF Len(f.neckline) > 0 THEN Str("Col ") \o f.neckline \o DOT ELSE <<>>,
           IF Len(f.pattern) > 0 THEN Str("Motif : ") \o f.pattern \o DOT ELSE <<>>,
           IF Len(f.colors) > 0 THEN Str("Coloris : ") \o f.colors \o DOT ELSE <<>> >>),
           SPACE)),
       BuildPullTommyComposition(PStr(f.material), Get(features, "cotton_percent"),
                                 Get(features, "wool_percent")),
       BuildStateSentence(f.defects),
       PULL_LOGISTICS,
       JoinTokens(AddAll(<<>>, PullHashtagAdds(f)), SPACE) >>

\* Mutant of BuildPullTommyDescription: the joined lines are returned without
\* the call of _strip_footer_lines.
BuildPullTommyDescription_NoFooterFilter(features, ai_description, ai_defects) ==
    IF IsMapping(features)
    THEN PStr(Join(NonEmpty(PullParagraphs(PullFields(features, ai_defects), features)), NL))
    ELSE PStr(SafeClean(ai_description))

\* build_pull_tommy_description
BuildPullTommyDescription(features, ai_description, ai_defects) ==
    IF IsMapping(features)
    THEN PStr(StripFooterLines(Join(NonEmpty(PullParagraphs(PullFields(features, ai_defects), features)), NL)))
    ELSE PStr(SafeClean(ai_description))

---------------------------------------------------------------------------
(* Inputs *)

\* rise_cm is drawn from RiseCmLow..RiseCmHigh centimetres, in whole numbers
\* (int) and in tenths (float).
RiseCmLow == 21
RiseCmHigh == 27

RiseTypes ==
    {None, PInt(3), PInt(0)} \cup
    {PStr(Str(x)) : x \in {"", "  ", "low", "ultra_low", " HIGH ", "Mid", "high",
                           "Taille Basse", "taille haute", "Moyenne", "regular",
                           "lowrise", "mi-haute", "moyenne haute", "haute ou basse"}}

RiseCms ==
    {None, PNaN, PInf, PNegZero, PList(<<>>)}
        \cup {PInt(n) : n \in RiseCmLow..RiseCmHigh}
        \cup {PFloat(m) : m \in (10 * RiseCmLow)..(10 * RiseCmHigh)}
        \cup {PStr(Str(x)) : x \in {"22.9", " 23 ", "26", "25,5", "haute", "",
                                    "22.99999999999999999", "{1C}22", "{A0}22{2000}",
                                    "{662}{666}", "1e10", "-123456789.5"}}

\* Percentages as the extraction step may give them: absent, empty, int, float,
\* numeric and non-numeric text.
Percents ==
    {None, PNaN, PInt(0), PInt(2), PInt(98), PInt(100), PFloat(989), PFloat(-5)}
        \cup {PStr(Str(x)) : x \in {"", "98", " 2.5 ", "98%", "coton"}}

\* Ints of 4301 digits, too long for str(), alone and in a list, and an int of
\* 4300 digits.
OneAndZeros(n) == [i \in 1..(n + 1) |-> IF i = 1 THEN "1" ELSE "0"]
LongValues ==
    {PLong(FALSE, OneAndZeros(4300)), PLong(TRUE, OneAndZeros(4300)),
     PList(<<PStr(Str("a")), PLong(FALSE, OneAndZeros(4300)), None>>)}
LongestPrinted == PLong(TRUE, OneAndZeros(4299))

Materials ==
    {None} \cup {PStr(Str(x)) : x \in {"", "  ", "100% laine", " Coton et laine "}}

DefectTexts ==
    {None, PInt(0), PInt(5)} \cup
    {PStr(Str(x)) : x \in {"", "  ", "petite tache", "Petite Tache. Voir photos",
                           "Bouloches au col, voir photos.", "voir photos",
                           "Trou ; ", "Tache (VOIR PHOTOS) sur la manche",
                           "usure l{E9}g{E8}re...", " RAS. ", "Accroc VOIR PHOTOS voir photos"}}

\* Lines a description may hold, for _strip_footer_lines; a description has from
\* one to MaxLines of them.
MaxLines == 3
FooterLinePool ==
    {Str(x) : x \in {"Marque : Levi's", "Marque tr{E8}s belle", "  COULEUR : bleu ",
                     "", "SKU JLF12", "Jean Levi's 501", "couleur: bleu",
                     "Ma marque : Levi's"}}
Descriptions ==
    UNION {{Join(ls, NL) : ls \in [1..n -> FooterLinePool]} : n \in 1..MaxLines}

\* Values that are no text, for the helpers that expect one.
NonTexts == {None, PInt(0), PInt(5), PList(<<>>), PList(<<PStr(Str("a")), PInt(1)>>)}

\* Values for _safe_clean.
CleanValues ==
    NonTexts \cup LongValues \cup {LongestPrinted, PFloat(385), PNaN, PNegZero}
        \cup {PStr(Str(x)) : x \in {"", "   ", "  Levi's \n", "501", "a  b", "{1C}x{A0}"}}
        \cup {PList(<<PNegZero, PStr(Str("a\\b\n"))>>), PList(<<PStr(Str("{A0}x'"))>>)}

\* Values for _format_percent: those of Percents, and negative, infinite and
\* signed ones.
PercentValues ==
    Percents \cup NonTexts \cup {PInf, PNegZero, PInt(-2), PFloat(-37), PFloat(20)}
        \cup {PStr(Str(x)) : x \in {"-3.7", "nan", "0", "0.9", "12abc", " ",
                                    "98.99999999999999999", "{1F}23", "{669}{668}",
                                    "1e10", "-1E23", "123456789.7"}}
        \cup {PLong(FALSE, Str("9007199254740993"))}

\* Fits and model hints for _normalize_fit_display.
RawFits ==
    {None, PInt(5), PInt(0)} \cup
    {PStr(Str(x)) : x \in {"", "Skinny", " regular ", "{E9}vas{E9}", "EVASE", "Boot Cut",
                           " Droit ", "Flare/{C9}vas{E9}", "{221A}{A9}vas{221A}{A9}"}}
ModelHints ==
    {None, PInt(5)} \cup
    {PStr(Str(x)) : x \in {"", "511 Slim", "Demi Curve", "501", "505 Straight"}}

\* A str value, or None for "".
Opt(x) == IF x = "" THEN None ELSE PStr(Str(x))

\* Arguments of _build_hashtags: brands, models, fits, and the three sizes
\* together.
TagBrands ==
    {PStr(Str(x)) : x \in {"", "Levi's", "JeanLevis", "Levi Strauss"}} \cup {PInt(5)}
TagModels ==
    {PStr(Str(x)) : x \in {"", "511 Slim", "Super Skinny 710", "Super slim skinny",
                           "levis 501 demi-curve", "Slim slim/5125 '93",
                           "{39F}{394}{39F}{3A3} {665}{660}{661} {2460}"}}
TagFits ==
    {PStr(Str(x)) : x \in {"", "Skinny", "Bootcut/{221A}{E2}vas{221A}{A9}", "Mom Fit"}}
TagSizes ==
    {<<Str(""), Str(""), Str("")>>, <<Str("38"), Str("W28"), Str("L32")>>,
     <<Str("38"), Str("28"), Str("")>>}
TagDurins == {PStr(Str(x)) : x \in {"#durin31fr38", "#fr38"}}
\* color, gender and rise_label together
TagExtras ==
    {<<Opt(""), Opt(""), Opt("")>>, <<Opt("Bleu Brut"), Opt("Femme"), Opt("taille haute")>>,
     <<Opt("denim"), Opt("501"), Opt("FR 38")>>}

\* Arguments of _build_hashtags of the wrong type: ordinary texts, and one
\* argument that is no str, read early, late or last by the code, or falsy.
TagWrongTypes ==
    LET texts == [brand |-> Opt("Levi's"), model |-> Opt("501"), fit |-> Opt("Skinny"),
                  color |-> Opt("Bleu Brut"), size_fr |-> Opt("38"),
                  size_us |-> Opt("W28"), length |-> Opt("L32"), gender |-> Opt("Femme"),
                  rise_label |-> Opt("taille haute"), durin_tag |-> Opt("#durin31fr38")]
    IN  {[texts EXCEPT ![p[1]] = p[2]] :
            p \in {<<"gender", PInt(5)>>, <<"model", PInt(501)>>, <<"fit", PFloat(15)>>,
                   <<"length", PList(<<PStr(Str("L32"))>>)>>, <<"durin_tag", PInt(5)>>,
                   <<"durin_tag", PList(<<PStr(Str("#fr38"))>>)>>,
                   <<"color", PList(<<>>)>>, <<"rise_label", PInt(0)>>}}

\* The features of a denim item: the dict of the keys that have a value.
DictOf(full) == PDict([k \in {k \in DOMAIN full : full[k] # None} |-> full[k]])

JeanFeatures ==
    {DictOf([brand |-> b, model |-> m, fit |-> f, color |-> c, size_fr |-> sz[1],
             size_us |-> sz[2], gender |-> PStr(Str("femme")), rise_type |-> rt,
             rise_cm |-> None, cotton_percent |-> pc[1], elasthane_percent |-> pc[2],
             defects |-> d, sku |-> None]) :
        b \in {Opt("Levi's"), None},
        m \in {Opt("501"), Opt("711 Skinny")},
        f \in {Opt("skinny"), None, Opt("Bootcut")},
        c \in {Opt("bleu d{E9}lav{E9}"), None},
        sz \in {<<Opt("38"), Opt("28")>>},
        rt \in {Opt("high"), None},
        pc \in {<<PInt(98), PInt(2)>>, <<None, None>>},
        d \in {None, Opt("Petite tache")}}
    \cup {PDict(<<>>)}
    \cup {DictOf([brand |-> Opt("marque : levis"), sku |-> Opt("JLF12"),
                  rise_cm |-> PFloat(225), length |-> Opt("L32"), size_us |-> PInt(30),
                  gender |-> Opt("Homme"), color |-> Opt("Noir")]),
          \* values of several lines
          DictOf([model |-> Opt("501"), gender |-> Opt("homme\n\nmarque : z")]),
          DictOf([color |-> Opt("bleu\nsku 7"), defects |-> Opt("Tache\n\nTrou")]),
          DictOf([fit |-> Opt("droit\nsku")]),
          \* values too long for str()
          DictOf([brand |-> PLong(FALSE, OneAndZeros(4300)), size_fr |-> Opt("38"),
                  defects |-> PLong(TRUE, OneAndZeros(4300))]),
          DictOf([model |-> PList(<<PLong(FALSE, OneAndZeros(4300))>>),
                  color |-> PLong(TRUE, OneAndZeros(4300))])}

PullFeatures ==
    {DictOf([brand |-> b, garment_type |-> g, gender |-> Opt("homme"),
             neckline |-> n, pattern |-> None, material |-> mat,
             cotton_percent |-> None, wool_percent |-> w, main_colors |-> col,
             size |-> sz, size_source |-> src, measurement_mode |-> mode,
             defects |-> None]) :
        b \in {Opt("Tommy Hilfiger")},
        g \in {None},
        n \in {Opt("V")},
        mat \in {None, Opt("100% laine")},
        w \in {PInt(80), None},
        col \in {None, Opt("bleu marine, Bleu Marine,blanc"),
                 PList(<<PStr(Str(" rouge ")), PStr(Str("")), None, PStr(Str("bleu"))>>)},
        sz \in {Opt("M"), None},
        src \in {Opt("estimated"), Opt("label"), Opt(" Estimated "), None},
        mode \in {Opt("mesures"), Opt("etiquette"), None}}
    \cup {PDict(<<>>)}
    \cup {DictOf([garment_type |-> Opt("gilet sans manches"), gender |-> Opt("Gilet sans manches"),
                  main_colors |-> Opt("gilet sans manches"), size |-> Opt("XL"),
                  defects |-> Opt("Bouloches"), pattern |-> Opt("torsad{E9}"),
                  neckline |-> Opt("rond")]),
          DictOf([garment_type |-> Opt("{DF}ort {130}{3A3}"), brand |-> Opt("TOMMY")]),
          \* an intro line that starts with a footer label
          DictOf([garment_type |-> Opt("sku")]),
          DictOf([garment_type |-> Opt("SKU-pull"), neckline |-> Opt("V"), size |-> Opt("M")]),
          DictOf([garment_type |-> Opt("couleur"), brand |-> Opt(": Tommy")]),
          DictOf([garment_type |-> Opt("marque")]),
          \* values of several lines
          DictOf([defects |-> Opt("a\n\nb")]),
          DictOf([main_colors |-> PList(<<PStr(Str("bleu\nnuit"))>>), size |-> Opt("M")]),
          DictOf([garment_type |-> Opt("pull\nsku"), material |-> Opt("laine\nmarque : x")]),
          \* values too long for str()
          DictOf([material |-> PLong(FALSE, OneAndZeros(4300)),
                  main_colors |-> PList(<<PStr(Str("bleu")), PLong(TRUE, OneAndZeros(4300))>>),
                  defects |-> PList(<<PLong(FALSE, OneAndZeros(4300))>>)])}

\* Values passed as features that are no mapping.
NotMappings == {None, PList(<<>>), PStr(Str("brand=Levi's")), PInt(0)}

AiDescriptions ==
    {None, PInt(12)} \cup
    {PStr(Str(x)) : x \in {"", "fallback text", "  Beau jean.\nTaille 38 \n", "   ",
                           "Beau jean.\nMarque : Levi's\nSKU JLF12"}}

AiDefects == {None, Opt("Accroc, voir photos"), PStr(<<>>), Opt("Tache\nSKU 12")}

---------------------------------------------------------------------------
(* The state machine: one action per function called *)

Init ==
    /\ call = "none"
    /\ args = [none |-> TRUE]
    /\ result = None
    /\ adds = <<>>
    /\ tokens = <<>>

\* Every function is called from the idle state, and Return hands its result to
\* the caller: no call leaves anything behind for the next one.
Idle == call = "none"

Return ==
    /\ ~Idle
    /\ call' = "none"
    /\ args' = [none |-> TRUE]
    /\ result' = None
    /\ adds' = <<>>
    /\ tokens' = <<>>

Call_format_rise_label ==
    /\ Idle
    /\ \E rt \in RiseTypes, cm \in RiseCms :
        /\ call' = "_format_rise_label"
        /\ args' = [rise_type |-> rt, rise_cm |-> cm]
        /\ result' = PStr(FormatRiseLabel(rt, cm))
        /\ UNCHANGED <<adds, tokens>>

Call_build_composition ==
    /\ Idle
    /\ \E c \in Percents, e \in Percents :
        /\ call' = "_build_composition"
        /\ args' = [cotton_percent |-> c, elasthane_percent |-> e]
        /\ result' = PStr(BuildComposition(c, e))
        /\ UNCHANGED <<adds, tokens>>

Call_build_pull_tommy_composition ==
    /\ Idle
    /\ \E m \in Materials, c \in Percents, w \in Percents :
        /\ call' = "_build_pull_tommy_composition"
        /\ args' = [material |-> m, cotton_percent |-> c, wool_percent |-> w]
        /\ result' = PStr(BuildPullTommyComposition(m, c, w))
        /\ UNCHANGED <<adds, tokens>>

Call_build_state_sentence ==
    /\ Idle
    /\ \E x \in DefectTexts \cup LongValues :
        /\ call' = "_build_state_sentence"
        /\ args' = [defects |-> x]
        /\ result' = PStr(BuildStateSentence(x))
        /\ UNCHANGED <<adds, tokens>>

Call_strip_footer_lines ==
    /\ Idle
    /\ \E x \in {PStr(d) : d \in Descriptions \cup {<<>>}} \cup NonTexts :
        /\ call' = "_strip_footer_lines"
        /\ args' = [description |-> x]
        /\ result' = StripFooterLinesOf(x)
        /\ UNCHANGED <<adds, tokens>>

Call_safe_clean ==
    /\ Idle
    /\ \E x \in CleanValues :
        /\ call' = "_safe_clean"
        /\ args' = [value |-> x]
        /\ result' = PStr(SafeClean(x))
        /\ UNCHANGED <<adds, tokens>>

Call_format_percent ==
    /\ Idle
    /\ \E x \in PercentValues :
        /\ call' = "_format_percent"
        /\ args' = [value |-> x]
        /\ result' = FormatPercent(x)
        /\ UNCHANGED <<adds, tokens>>

Call_normalize_defects ==
    /\ Idle
    /\ \E x \in DefectTexts \cup NonTexts \cup LongValues :
        /\ call' = "_normalize_defects"
        /\ args' = [defects |-> x]
        /\ result' = PStr(NormalizeDefects(x))
        /\ UNCHANGED <<adds, tokens>>

Call_normalize_fit_display ==
    /\ Idle
    /\ \E f \in RawFits, m \in ModelHints :
        /\ call' = "_normalize_fit_display"
        /\ args' = [raw_fit |-> f, model_hint |-> m]
        /\ result' = PStr(NormalizeFitDisplay(f, m))
        /\ UNCHANGED <<adds, tokens>>

\* _build_hashtags called with the arguments a.
BuildHashtagsCalled(a) ==
    /\ call' = "_build_hashtags"
    /\ args' = a
    /\ adds' = BuildHashtagAdds(a)
    /\ tokens' = AddAll(<<>>, adds')
    /\ result' = PStr(BuildHashtags(a))

\* The arguments _build_hashtags is called with.
TagArguments ==
    {[brand |-> b, model |-> m, fit |-> f, color |-> x[1], size_fr |-> PStr(sz[1]),
      size_us |-> PStr(sz[2]), length |-> PStr(sz[3]), gender |-> x[2],
      rise_label |-> x[3], durin_tag |-> dt] :
        b \in TagBrands, m \in TagModels, f \in TagFits, sz \in TagSizes,
        x \in TagExtras, dt \in TagDurins}
        \cup TagWrongTypes

Call_build_hashtags ==
    /\ Idle
    /\ \E a \in TagArguments : BuildHashtagsCalled(a)

Call_build_jean_levis_description ==
    /\ Idle
    /\ \E f \in JeanFeatures \cup NotMappings, d \in AiDescriptions, x \in AiDefects :
        \* the mappings are composed with one ai_description, the values that are
        \* no mapping with each
        /\ IsMapping(f) => d = PStr(Str("fallback text"))
        /\ call' = "build_jean_levis_description"
        /\ args' = [features |-> f, ai_description |-> d, ai_defects |-> x]
        /\ result' = BuildJeanLevisDescription(f, d, x)
        /\ adds' = IF IsMapping(f) THEN JeanHashtagAdds(JeanFields(f, x)) ELSE <<>>
        /\ tokens' = AddAll(<<>>, adds')

Call_build_pull_tommy_description ==
    /\ Idle
    /\ \E f \in PullFeatures \cup NotMappings, d \in AiDescriptions, x \in AiDefects :
        /\ IsMapping(f) => d = PStr(Str("fallback text"))
        /\ call' = "build_pull_tommy_description"
        /\ args' = [features |-> f, ai_description |-> d, ai_defects |-> x]
        /\ result' = BuildPullTommyDescription(f, d, x)
        /\ adds' = IF IsMapping(f) THEN PullHashtagAdds(PullFields(f, x)) ELSE <<>>
        /\ tokens' = AddAll(<<>>, adds')

Next ==
    \/ Call_format_rise_label
    \/ Call_build_hashtags
    \/ Call_build_jean_levis_description
    \/ Call_build_pull_tommy_description
    \/ Call_build_composition
    \/ Call_build_pull_tommy_composition
    \/ Call_build_state_sentence
    \/ Call_strip_footer_lines
    \/ Call_safe_clean
    \/ Call_format_percent
    \/ Call_normalize_defects
    \/ Call_normalize_fit_display
    \/ Return

Spec == Init /\ [][Next]_vars

---------------------------------------------------------------------------
(* Claims *)

\* A rise_cm that is a number: an int, or a float other than nan.
IsNumber(v) == v.t = "int" \/ (v.t = "float" /\ v.k # "nan")
\* The number v is below / at least n (a whole number).
NumberBelow(v, n) ==
    IF v.t = "int" THEN v.n < n ELSE v.k = "-inf" \/ (v.k \in {"fin", "-0"} /\ v.m < 10 * n)
NumberAtLeast(v, n) ==
    IF v.t = "int" THEN v.n >= n ELSE v.k = "inf" \/ (v.k \in {"fin", "-0"} /\ v.m >= 10 * n)

\* C1: with rise_type absent and rise_cm a number, _format_rise_label returns
\* "taille basse" when rise_cm < 23, "taille haute" when rise_cm >= 26, and
\* "taille moyenne" when 23 <= rise_cm < 26.
C1_RiseFromCm ==
    (call = "_format_rise_label" /\ args.rise_type = None /\ IsNumber(args.rise_cm))
    => /\ NumberBelow(args.rise_cm, 23) => result = PStr(Str("taille basse"))
       /\ NumberAtLeast(args.rise_cm, 26) => result = PStr(Str("taille haute"))
       /\ (NumberAtLeast(args.rise_cm, 23) /\ NumberBelow(args.rise_cm, 26))
             => result = PStr(Str("taille moyenne"))

\* C1 witness: the boundaries themselves, 23 (int) is mid and 26.0 (float) is high.
C1_Witness ==
    /\ call = "_format_rise_label"
    /\ args.rise_type = None
    /\ \/ args.rise_cm = PInt(23) /\ result = PStr(Str("taille moyenne"))
       \/ args.rise_cm = PFloat(260) /\ result = PStr(Str("taille haute"))

\* The rise_type as the claims read it: trimmed and lower-cased, "" when absent.
C2_Type == IF args.rise_type.t = "str" THEN Lower(Strip(args.rise_type.s)) ELSE <<>>
C2_IsLow == C2_Type \in {Str("low"), Str("ultra_low")} \/ Contains(C2_Type, Str("basse"))
C2_IsHigh == C2_Type = Str("high") \/ Contains(C2_Type, Str("haute"))
C2_IsMid == C2_Type = Str("mid") \/ Contains(C2_Type, Str("moy"))
\* The call the claim is about: rise_type a str or absent.
C2_Case == call = "_format_rise_label" /\ args.rise_type.t \in {"str", "none"}
\* rise_cm gives no number: absent, a list, nan, or a str that float() rejects.
C2_CmUnusable ==
    \/ args.rise_cm.t \in {"none", "list"}
    \/ args.rise_cm = PNaN
    \/ args.rise_cm.t = "str" /\ ~ParseFloat(args.rise_cm.s).ok
\* With no token matched: the label of a number follows the thresholds 23 and
\* 26, and an unusable rise_cm gives the mid label.
C2_FromCm ==
    /\ (IsNumber(args.rise_cm) /\ NumberBelow(args.rise_cm, 23))
          => result = PStr(Str("taille basse"))
    /\ (IsNumber(args.rise_cm) /\ NumberAtLeast(args.rise_cm, 26))
          => result = PStr(Str("taille haute"))
    /\ (IsNumber(args.rise_cm) /\ NumberAtLeast(args.rise_cm, 23)
          /\ NumberBelow(args.rise_cm, 26)) => result = PStr(Str("taille moyenne"))
    /\ C2_CmUnusable => result = PStr(Str("taille moyenne"))

\* C2 as stated: each rise_type token group decides the label on its own,
\* whatever rise_cm is (low/ultra_low/contains basse gives "taille basse",
\* high/contains haute gives "taille haute", mid/contains moy gives "taille
\* moyenne"), and rise_cm decides only when no group matches.
C2_AsStated ==
    C2_Case =>
        /\ C2_IsLow => result = PStr(Str("taille basse"))
        /\ C2_IsHigh => result = PStr(Str("taille haute"))
        /\ C2_IsMid => result = PStr(Str("taille moyenne"))
        /\ (~C2_IsLow /\ ~C2_IsHigh /\ ~C2_IsMid) => C2_FromCm

\* C2 amended: the token groups are tried in the order low, high, mid and the
\* first that matches decides the label, whatever rise_cm is; rise_cm decides
\* only when rise_type is absent or matches no group, and the label is "taille
\* moyenne" when neither is usable.
C2_FirstMatchWins ==
    C2_Case =>
        /\ C2_IsLow => result = PStr(Str("taille basse"))
        /\ (~C2_IsLow /\ C2_IsHigh) => result = PStr(Str("taille haute"))
        /\ (~C2_IsLow /\ ~C2_IsHigh /\ C2_IsMid) => result = PStr(Str("taille moyenne"))
        /\ (~C2_IsLow /\ ~C2_IsHigh /\ ~C2_IsMid) => C2_FromCm

\* C2 witness: rise_type " HIGH " wins over a rise_cm of 21, which alone is low.
C2_Witness ==
    /\ call = "_format_rise_label"
    /\ args.rise_type = PStr(Str(" HIGH "))
    /\ args.rise_cm = PInt(21)
    /\ result = PStr(Str("taille haute"))

\* Whether the list holds no element twice.
NoDuplicate(list) == \A i, j \in 1..Len(list) : list[i] = list[j] => i = j
\* The add() calls that insert: a token not empty and not passed to add() before.
FirstInsertions(addSeq) ==
    {i \in 1..Len(addSeq) : Truthy(addSeq[i]) /\ \A j \in 1..(i - 1) : addSeq[j] # addSeq[i]}
\* The calls that build a hashtag list.
C3_Case ==
    \/ call = "_build_hashtags"
    \/ call \in {"build_pull_tommy_description", "build_jean_levis_description"}
          /\ IsMapping(args.features)

\* s ends with suffix.
EndsWith(s, suffix) ==
    /\ Len(s) >= Len(suffix)
    /\ SubSeq(s, Len(s) - Len(suffix) + 1, Len(s)) = suffix

C4_IsFooter(line) ==
    LET t == Lower(Strip(line))
    IN  \E prefix \in {Str("marque :"), Str("couleur :"), Str("sku")} :
            Len(t) >= Len(prefix) /\ SubSeq(t, 1, Len(prefix)) = prefix
C4_Lines == Split(args.description.s, Str("\n"))

\* C4: _strip_footer_lines removes exactly the lines whose trimmed, lower-cased
\* text starts with "marque :", "couleur :" or "sku", and keeps every other line,
\* blank lines included, unchanged and in order: the result is the other lines
\* joined by "\n".  "Marque : Levi's" goes, "Marque tr\`es belle" stays.
C4_StripFooterLines ==
    (call = "_strip_footer_lines" /\ args.description.t = "str"
        /\ Len(args.description.s) > 0) =>
        /\ result = PStr(Join(SelectSeq(C4_Lines, LAMBDA l : ~C4_IsFooter(l)), Str("\n")))
        /\ C4_IsFooter(Str("Marque : Levi's"))
        /\ ~C4_IsFooter(Str("Marque tr{E8}s belle"))

\* C4 witness: of the three lines "Marque : Levi's", "", "Marque tr\`es belle"
\* the first is removed, the blank line and the third are kept.
C4_Witness ==
    /\ call = "_strip_footer_lines"
    /\ args.description = PStr(Str("Marque : Levi's\n\nMarque tr{E8}s belle"))
    /\ result = PStr(Str("\nMarque tr{E8}s belle"))

\* The trimmed string form of ai_description, "" when there is none.
C5_Fallback ==
    IF args.ai_description = None THEN <<>> ELSE Strip(PyStr(args.ai_description))
\* A composer is called and composition fails: features is no mapping.
C5_Case ==
    /\ call \in {"build_jean_levis_description", "build_pull_tommy_description"}
    /\ ~IsMapping(args.features)

\* C5: when composition fails (features is no mapping) the two composers do not
\* raise; each returns the trimmed string form of ai_description, and "" when
\* no ai_description was given.
C5_FallbackOnFailure ==
    C5_Case =>
        /\ result # Raised
        /\ result = PStr(C5_Fallback)
        /\ args.ai_description = None => result = PStr(<<>>)

\* C5 witness: the denim composer is given None as features and an
\* ai_description with white space around it, and returns it trimmed.
C5_Witness ==
    /\ call = "build_jean_levis_description"
    /\ args.features = None
    /\ args.ai_description = PStr(Str("  Beau jean.\nTaille 38 \n"))
    /\ result = PStr(Str("Beau jean.\nTaille 38"))

\* The features of the end-to-end denim scenario.
C6_Features ==
    PDict([brand |-> PStr(Str("Levi's")), model |-> PStr(Str("501")),
           fit |-> PStr(Str("skinny")), color |-> PStr(Str("bleu d{E9}lav{E9}")),
           size_fr |-> PStr(Str("38")), size_us |-> PStr(Str("28")),
           gender |-> PStr(Str("femme")), rise_type |-> PStr(Str("high")),
           cotton_percent |-> PInt(98), elasthane_percent |-> PInt(2)])
C6_Case ==
    /\ call = "build_jean_levis_description"
    /\ args.features = C6_Features
    /\ args.ai_defects = None
\* No line of text starts, trimmed and lower-cased, with "marque :".
C6_NoMarqueLine(text) ==
    \A line \in {Split(text, Str("\n"))[i] : i \in 1..Len(Split(text, Str("\n")))} :
        ~StartsWith(Lower(Strip(line)), Str("marque :"))

\* C6 as stated: for the scenario's features, with ai_defects absent, the output
\* of build_jean_levis_description contains "taille haute", the hashtag
\* "#skinnyjean" and "98% coton et 2% \'elasthanne" (with U+00E9), and has no
\* line starting with "marque :".
C6_AsStated ==
    C6_Case =>
        /\ Contains(result.s, Str("taille haute"))
        /\ Contains(result.s, Str("#skinnyjean"))
        /\ Contains(result.s, Str("98% coton et 2% {E9}lasthanne"))
        /\ C6_NoMarqueLine(result.s)

\* The size sentence of a knitwear description: its second line.
C7_SizeSentence == Split(result.s, Str("\n"))[2]
C7_Case == call = "build_pull_tommy_description" /\ IsMapping(args.features)
C7_Field(key) == SafeClean(Get(args.features, key))
\* The three sentences, in the spelling the claim and the spec give them.
C7_Estimated(size) ==
    Str("Taille estim{E9}e ") \o size
        \o Str(". Estim{E9}e {E0} la main {E0} partir des mesures {E0} plat.")
C7_Label(size) == Str("Taille indiqu{E9}e sur {E9}tiquette : ") \o size \o Str(".")

\* C7 as stated: with a size, the size sentence of build_pull_tommy_description
\* is the estimated-size sentence (it mentions "estim\'ee") if and only if
\* size_source equals "estimated" or measurement_mode equals "mesures", and the
\* size-on-label sentence otherwise; with no size it is "Taille non
\* pr\'ecis\'ee." whatever the two fields are.
C7_AsStated ==
    C7_Case =>
        IF Len(C7_Field("size")) = 0
        THEN C7_SizeSentence = Str("Taille non pr{E9}cis{E9}e.")
        ELSE IF Get(args.features, "size_source") = PStr(Str("estimated"))
                 \/ Get(args.features, "measurement_mode") = PStr(Str("mesures"))
        THEN C7_SizeSentence = C7_Estimated(C7_Field("size"))
        ELSE C7_SizeSentence = C7_Label(C7_Field("size"))

\* C8 as stated: _build_composition returns "Composition : X% coton et Y%
\* \'elasthanne." when both percentages parse, the sentence with the one parsed
\* fibre when one does, and "Composition non lisible (voir \'etiquettes en
\* photo)." when none does (the accented letters being U+00E9).
C8_AsStated ==
    call = "_build_composition" =>
        LET c == FormatPercent(args.cotton_percent)
            e == FormatPercent(args.elasthane_percent)
            coton == IF c = None THEN <<>> ELSE IntToStr(c.n) \o Str("% coton")
            elas == IF e = None THEN <<>> ELSE IntToStr(e.n) \o Str("% {E9}lasthanne")
        IN  result.s =
                IF c # None /\ e # None
                THEN Str("Composition : ") \o coton \o Str(" et ") \o elas \o Str(".")
                ELSE IF c # None THEN Str("Composition : ") \o coton \o Str(".")
                ELSE IF e # None THEN Str("Composition : ") \o elas \o Str(".")
                ELSE Str("Composition non lisible (voir {E9}tiquettes en photo).")

\* The percentages that parse, and the cleaned material label.
C9_Cotton == FormatPercent(args.cotton_percent)
C9_Wool == FormatPercent(args.wool_percent)
C9_Label == IF args.material = None THEN <<>> ELSE Strip(args.material.s)

\* C9: _build_pull_tommy_composition falls back in strict order.  If a
\* percentage parses the sentence is "Composition : " with the parsed
\* percentages ("<n>% coton", "<n>% laine", joined by " et ") and nothing of the
\* material label; otherwise, if the cleaned label is not empty, the sentence
\* embeds the label; only with no percentage and no label is it the
\* unreadable-composition message.
C9_FallbackOrder ==
    call = "_build_pull_tommy_composition" =>
        LET coton == IF C9_Cotton = None THEN <<>>
                     ELSE IntToStr(C9_Cotton.n) \o Str("% coton")
            laine == IF C9_Wool = None THEN <<>>
                     ELSE IntToStr(C9_Wool.n) \o Str("% laine")
            unreadable == Str("Composition non lisible (voir photos).")
        IN  /\ (C9_Cotton # None /\ C9_Wool # None) =>
                  result.s = Str("Composition : ") \o coton \o Str(" et ") \o laine \o Str(".")
            /\ (C9_Cotton # None /\ C9_Wool = None) =>
                  result.s = Str("Composition : ") \o coton \o Str(".")
            /\ (C9_Cotton = None /\ C9_Wool # None) =>
                  result.s = Str("Composition : ") \o laine \o Str(".")
            /\ (C9_Cotton = None /\ C9_Wool = None /\ Len(C9_Label) > 0) =>
                  /\ Contains(result.s, Str(" : ") \o C9_Label \o Str("."))
                  /\ result.s # unreadable
            /\ (C9_Cotton = None /\ C9_Wool = None /\ Len(C9_Label) = 0) =>
                  result.s = unreadable

\* C9 witness: with the label "100% laine" and a cotton_percent of 98 the
\* sentence lists the percentage and not the label.
C9_Witness ==
    /\ call = "_build_pull_tommy_composition"
    /\ args.material = PStr(Str("100% laine"))
    /\ args.cotton_percent = PInt(98)
    /\ args.wool_percent = None
    /\ result = PStr(Str("Composition : 98% coton."))

\* The defects text normalised as the claim says: what precedes the first
\* "voir photos" (in any case), as given, without trailing ". ,;" characters.
C10_Normalised ==
    LET text == Strip(args.defects.s)
        at == Find(Lower(text), Str("voir photos"))
        before == IF at = 0 THEN text ELSE SubSeq(text, 1, at - 1)
    IN  RStripChars(Strip(before), {".", " ", ",", ";"})

\* C10 as stated: _build_state_sentence returns "Tr\`es bon \'etat." (U+00E8,
\* U+00E9) when the normalised defects text is empty, and otherwise a sentence
\* that embeds the normalised text, as given before the marker, followed by one
\* "(voir photos)".
C10_AsStated ==
    (call = "_build_state_sentence" /\ args.defects.t = "str") =>
        IF Len(C10_Normalised) = 0
        THEN result = PStr(Str("Tr{E8}s bon {E9}tat."))
        ELSE /\ Contains(result.s, C10_Normalised \o Str(" (voir photos)"))
             /\ ~Contains(SubSeq(result.s, 1, Len(result.s) - Len(Str("(voir photos).")) ),
                          Str("voir photos"))

\* Text without case and without the accent of U+00E9 / U+00C9.
C11_Fold(text) == Replace(Lower(text), Str("{E9}"), Str("e"))
\* The text of an argument of _normalize_fit_display, "" for None.
C11_Text(v) == IF v.t = "str" THEN Strip(v.s) ELSE <<>>
\* Whether the raw fit or the model hint contains one of the markers.
C11_Either(markers) ==
    \E m \in markers :
        \/ Contains(C11_Fold(C11_Text(args.raw_fit)), Str(m))
        \/ Contains(C11_Fold(C11_Text(args.model_hint)), Str(m))

\* C11 as stated: _normalize_fit_display looks for its markers, without case and
\* without accents, in the raw fit and in the model hint: "Bootcut/\'Evas\'e"
\* (U+00C9, U+00E9) when either contains boot, flare, evas, curve or curvy; else
\* "Skinny" when either contains skinny or slim; else "Straight/Droit" when
\* either contains straight or droit; else the cleaned raw value, and "coupe non
\* pr\'ecis\'ee" when both are empty.
C11_AsStated ==
    (/\ call = "_normalize_fit_display"
     /\ args.raw_fit.t \in {"str", "none"}
     /\ args.model_hint.t \in {"str", "none"}) =>
        IF C11_Either({"boot", "flare", "evas", "curve", "curvy"})
        THEN result = PStr(Str("Bootcut/{C9}vas{E9}"))
        ELSE IF C11_Either({"skinny", "slim"}) THEN result = PStr(Str("Skinny"))
        ELSE IF C11_Either({"straight", "droit"}) THEN result = PStr(Str("Straight/Droit"))
        ELSE IF Len(C11_Text(args.raw_fit)) > 0 THEN result = PStr(C11_Text(args.raw_fit))
        ELSE Len(C11_Text(args.model_hint)) = 0 =>
                result = PStr(Str("coupe non pr{E9}cis{E9}e"))

\* The lines of a returned description, the positions of its blank lines, and
\* its blocks: the runs of lines between two blank lines.
OutLines == Split(result.s, Str("\n"))
\* The positions of the blank lines.
BlankIn(lines) == {i \in 1..Len(lines) : lines[i] = <<>>}
BlankAt == BlankIn(OutLines)
\* The k-th block of lines: the lines between blank line k - 1 and blank line
\* k, joined again.
BlockStart(blanks, k) == IF k = 1 THEN 1 ELSE Nth(blanks, k - 1) + 1
BlockEnd(lines, blanks, k) ==
    IF k = Cardinality(blanks) + 1 THEN Len(lines) ELSE Nth(blanks, k) - 1
BlockOf(lines, blanks, k) ==
    Join(SubSeq(lines, BlockStart(blanks, k), BlockEnd(lines, blanks, k)), Str("\n"))
BlockIn(lines, k) == BlockOf(lines, BlankIn(lines), k)
Block(k) == BlockIn(OutLines, k)
\* Ten blank lines, none next to another and none first or last: eleven blocks,
\* none empty.
ElevenBlocks(lines, blanks) ==
    /\ Cardinality(blanks) = 10
    /\ \A k \in 1..11 : BlockStart(blanks, k) <= BlockEnd(lines, blanks, k)
\* A composer is called with a mapping: the successful path.
Composed(name) == call = name /\ IsMapping(args.features)

\* A value of one line: a str without line break, a list of such, or no str.
OneLine(v) ==
    CASE v.t = "str" -> ~Contains(v.s, Str("\n"))
      [] v.t = "list" ->
            \A i \in 1..Len(v.l) : v.l[i].t = "str" => ~Contains(v.l[i].s, Str("\n"))
      [] OTHER -> TRUE
\* No feature value and no defects text of the call holds a line break.
OneLineValues ==
    /\ \A k \in DOMAIN args.features.d : OneLine(args.features.d[k])
    /\ OneLine(args.ai_defects)

\* The eleven blocks of a denim description, each recognised by its text.
C12_BlocksInOrder ==
    /\ ElevenBlocks(OutLines, BlankAt)
    /\ StartsWith(Block(1), Str("Jean "))
    /\ Contains(Block(2), Str("pour une silhouette"))
    /\ StartsWith(Block(3), Str("Coloris"))
    /\ StartsWith(Block(4), Str("Composition"))
    /\ Block(5) = CLOSURE
    /\ StartsWith(Block(6), TRES_BON_ETAT)
    /\ Block(7) = LOGISTICS
    /\ Block(8) = SHIPPING
    /\ StartsWith(Block(9), CTA_DURIN_PREFIX \o Str("#durin31fr"))
    /\ Block(10) = CTA_LOT
    /\ StartsWith(Block(11), Str("#"))
    /\ Block(11) = JoinTokens(tokens, Str(" "))

\* C12 as stated: for all feature values a successful
\* build_jean_levis_description returns eleven blocks, each separated from the
\* next by exactly one blank line, in the order intro, size, color, composition,
\* closure, state, logistics, shipping, collection call-to-action, lot
\* call-to-action, hashtags.
C12_AsStated == Composed("build_jean_levis_description") => C12_BlocksInOrder

\* The closure, logistics, shipping and lot call-to-action sentences are lines
\* of their own, in that order.
C12_FixedLinesInOrder(lines) ==
    \E a \in 1..Len(lines) :
        /\ lines[a] = CLOSURE
        /\ \E b \in (a + 1)..Len(lines) :
              /\ lines[b] = LOGISTICS
              /\ \E c \in (b + 1)..Len(lines) :
                    /\ lines[c] = SHIPPING
                    /\ \E d \in (c + 1)..Len(lines) : lines[d] = CTA_LOT

\* C12: a successful build_jean_levis_description whose feature values and
\* defects text hold no line break returns eleven blocks, each separated from
\* the next by exactly one blank line, in the order intro, size, color,
\* composition, closure, state, logistics, shipping, collection call-to-action,
\* lot call-to-action, hashtags.  For every value the output has ten blank
\* lines at least and the closure, logistics, shipping and lot call-to-action
\* sentences as lines of their own in that order: a line break inside a value
\* adds lines to its block, and never moves a block.
C12_JeanBlockOrder ==
    Composed("build_jean_levis_description") =>
        /\ OneLineValues => C12_BlocksInOrder
        /\ Cardinality(BlankAt) >= 10
        /\ C12_FixedLinesInOrder(OutLines)

\* C12 witness: a denim description composed from features with a defect; its
\* sixth block is the state sentence that names the defect.
C12_Witness ==
    /\ Composed("build_jean_levis_description")
    /\ OneLineValues
    /\ Get(args.features, "defects") = PStr(Str("Petite tache"))
    /\ args.ai_defects = None
    /\ Cardinality(BlankAt) = 10
    /\ Contains(Block(6), Str("Petite tache (voir photos)."))

\* The fields of the merged line of a knitwear description.
C13_Neckline == SafeClean(Get(args.features, "neckline"))
C13_Pattern == SafeClean(Get(args.features, "pattern"))
C13_Colors == PullColors(Get(args.features, "main_colors"))
C13_HasMerged == Len(C13_Neckline) > 0 \/ Len(C13_Pattern) > 0 \/ Len(C13_Colors) > 0
\* The neckline, pattern and color sentences that line i holds, in that order.
C13_IsMerged(i) ==
    OutLines[i] = Join(NonEmpty(<<
        IF Len(C13_Neckline) > 0 THEN Str("Col ") \o C13_Neckline \o Str(".") ELSE <<>>,
        IF Len(C13_Pattern) > 0 THEN Str("Motif : ") \o C13_Pattern \o Str(".") ELSE <<>>,
        IF Len(C13_Colors) > 0 THEN Str("Coloris : ") \o C13_Colors \o Str(".") ELSE <<>> >>),
        Str(" "))
\* The number of lines before the composition line.
C13_Head == IF C13_HasMerged THEN 3 ELSE 2

\* C13 as stated: a successful build_pull_tommy_description returns lines joined
\* by single newlines, none of them blank, in the order intro, size, one line
\* with the neckline, pattern and color sentences, composition, state,
\* logistics, hashtags; the merged line is left out, with no empty line in its
\* place, when the three sentences are empty, and the hashtag line is the last
\* one.
C13_AsStated ==
    Composed("build_pull_tommy_description") =>
        /\ BlankAt = {}
        /\ Len(OutLines) = C13_Head + 4
        /\ Contains(OutLines[1], Str(" pour "))
        /\ StartsWith(OutLines[2], Str("Taille "))
        /\ C13_HasMerged => C13_IsMerged(3)
        /\ StartsWith(OutLines[C13_Head + 1], Str("Composition"))
        /\ StartsWith(OutLines[C13_Head + 2], TRES_BON_ETAT)
        /\ OutLines[C13_Head + 3] = PULL_LOGISTICS
        /\ StartsWith(OutLines[C13_Head + 4], Str("#tommyhilfiger"))
        /\ OutLines[C13_Head + 4] = JoinTokens(tokens, Str(" "))

\* The intro sentence of a knitwear description: the garment type, "pull" when
\* there is none, with its first letter in title case and the rest in lower
\* case, the brand and the gender.
C13_Text(key, default) ==
    IF Len(C7_Field(key)) > 0 THEN C7_Field(key) ELSE Str(default)
C13_Intro ==
    Capitalize(C13_Text("garment_type", "pull")) \o Str(" ")
        \o C13_Text("brand", "Tommy Hilfiger") \o Str(" pour ")
        \o C13_Text("gender", "femme") \o Str(".")
\* The position of the size line: the second line, and the first when the
\* footer filter has removed the intro line.
C13_SizeAt == IF C4_IsFooter(C13_Intro) THEN 1 ELSE 2
\* The number of lines before the composition line.
C13_Lead == IF C13_HasMerged THEN C13_SizeAt + 1 ELSE C13_SizeAt

\* C13: a successful build_pull_tommy_description whose feature values and
\* defects text hold no line break returns lines joined by single newlines,
\* none of them blank, in the order intro, size, one line with the neckline,
\* pattern and color sentences, composition, state, logistics, hashtags; the
\* merged line is left out, with no empty line in its place, when the three
\* sentences are empty, and the hashtag line is the last one.  The intro line
\* is left out as well when it starts, lower-cased, with "marque :",
\* "couleur :" or "sku": the footer filter removes it, and the size line is
\* the first.
C13_PullLineOrder ==
    (Composed("build_pull_tommy_description") /\ OneLineValues) =>
        /\ BlankAt = {}
        /\ Len(OutLines) = C13_Lead + 4
        /\ C13_SizeAt = 2 => OutLines[1] = C13_Intro
        /\ StartsWith(OutLines[C13_SizeAt], Str("Taille "))
        /\ C13_HasMerged => C13_IsMerged(C13_Lead)
        /\ StartsWith(OutLines[C13_Lead + 1], Str("Composition"))
        /\ StartsWith(OutLines[C13_Lead + 2], TRES_BON_ETAT)
        /\ OutLines[C13_Lead + 3] = PULL_LOGISTICS
        /\ StartsWith(OutLines[C13_Lead + 4], Str("#tommyhilfiger"))
        /\ OutLines[C13_Lead + 4] = JoinTokens(tokens, Str(" "))

\* C13 witness: a knitwear description composed from the empty mapping has no
\* neckline, pattern or color: six lines, the composition right after the size.
C13_Witness ==
    /\ Composed("build_pull_tommy_description")
    /\ args.features = PDict(<<>>)
    /\ OneLineValues
    /\ Len(OutLines) = 6
    /\ BlankAt = {}
    /\ StartsWith(OutLines[3], Str("Composition"))

\* The tokens of a hashtag line: the line split on single spaces.
C14_Tokens == Split(result.s, Str(" "))

\* C14 as stated: when every argument of _build_hashtags is a str, every token
\* of the returned line begins with "#", is in lower case and holds no space
\* and no apostrophe.
C14_AsStated ==
    (call = "_build_hashtags" /\ \A k \in DOMAIN args : args[k].t = "str") =>
        \A i \in 1..Len(C14_Tokens) :
            /\ StartsWith(C14_Tokens[i], Str("#"))
            /\ C14_Tokens[i] = Lower(C14_Tokens[i])
            /\ ~Contains(C14_Tokens[i], Str(" "))
            /\ ~Contains(C14_Tokens[i], Str("'"))

\* The helpers of the toolkit.
C15_Helpers ==
    {"_safe_clean", "_format_percent", "_format_rise_label", "_build_composition",
     "_build_state_sentence", "_normalize_defects", "_normalize_fit_display",
     "_build_hashtags", "_strip_footer_lines"}
\* A value that is truthy and no str: the str methods the helpers call on it fail.
C15_NoStr(v) == Truthy(v) /\ v.t # "str"
\* The call meets an internal error: an argument of the wrong type reaches a str
\* method, float() is given a list, or str() an int of more than 4300 digits.
C15_InternalError ==
    CASE call = "_safe_clean" -> StrRaises(args.value)
      [] call = "_format_rise_label" -> C15_NoStr(args.rise_type)
      [] call = "_normalize_fit_display" ->
            C15_NoStr(args.raw_fit) \/ C15_NoStr(args.model_hint)
      [] call = "_build_hashtags" -> \E k \in DOMAIN args : C15_NoStr(args[k])
      [] call = "_strip_footer_lines" -> C15_NoStr(args.description)
      [] call = "_format_percent" -> args.value.t = "list"
      [] OTHER -> FALSE
\* C15 as stated: no helper lets an exception out, and on an internal error
\* each returns one of the listed fallbacks: the empty string, absent, "taille
\* moyenne", the unreadable-composition sentence or the fit-unspecified
\* placeholder.
C15_AsStated ==
    call \in C15_Helpers =>
        /\ result # Raised
        /\ C15_InternalError =>
              result \in {PStr(<<>>), None, PStr(Str("taille moyenne")),
                          PStr(COMPOSITION_NON_LISIBLE), PStr(COUPE_NON_PRECISEE)}

\* The numeric strings given to _format_percent, with the integer the float of
\* each one truncates to: 98.99999999999999999 is read as the float 99.0, and
\* U+669 U+668 are the digits 9 and 8.
C16_NumericStrings ==
    {<<"98", 98>>, <<" 2.5 ", 2>>, <<"-3.7", -3>>, <<"0", 0>>, <<"0.9", 0>>,
     <<"98.99999999999999999", 99>>, <<"{669}{668}", 98>>, <<"123456789.7", 123456789>>}
\* The numeric strings of ten digits or more before the point, with the integer
\* of the float of each one: the float nearest to 10^23 is 2^23 * 11920928955078125.
C16_LongStrings ==
    {<<"1e10", PLong(FALSE, Str("10000000000"))>>,
     <<"-1E23", PLong(TRUE, Str("99999999999999991611392"))>>}
\* n is the float of m tenths truncated toward zero: same sign, and the
\* magnitude cut down to a whole number.
C16_IsTruncation(n, m) ==
    LET a == IF m < 0 THEN -m ELSE m
        b == IF n < 0 THEN -n ELSE n
    IN  /\ 10 * b <= a
        /\ a < 10 * b + 10
        /\ (m >= 0 => n >= 0)
        /\ (m <= 0 => n <= 0)

\* C16: _format_percent returns None for None, for "" and for an input that is
\* no number (a text that does not parse, a list, nan, infinity); an int is
\* returned as it is, a finite float and a numeric string as the integer
\* truncated toward zero (the int 9007199254740993 as 9007199254740992, the
\* integer of its float); 0 is returned as the integer 0, not as None.
C16_Truncation ==
    call = "_format_percent" =>
        LET v == args.value
        IN  /\ v.t = "none" => result = None
            /\ v.t = "list" => result = None
            /\ v.t = "int" => result = PInt(v.n)
            /\ (v.t = "float" /\ v.k \in {"fin", "-0"}) =>
                  /\ result.t = "int"
                  /\ C16_IsTruncation(result.n, v.m)
            /\ (v.t = "float" /\ v.k \notin {"fin", "-0"}) => result = None
            /\ v.t = "long" => result = PLong(FALSE, Str("9007199254740992"))
            /\ v.t = "str" =>
                  /\ \A p \in C16_NumericStrings : v.s = Str(p[1]) => result = PInt(p[2])
                  /\ \A p \in C16_LongStrings : v.s = Str(p[1]) => result = p[2]
                  /\ (\A p \in C16_NumericStrings \cup C16_LongStrings : v.s # Str(p[1]))
                        => result = None
            /\ v \in {PInt(0), PStr(Str("0"))} => result = PInt(0)

\* C16 witness: the float -3.7 was given and _format_percent returned -3, the
\* truncation toward zero, where rounding down would give -4.
C16_Witness ==
    /\ call = "_format_percent"
    /\ args.value = PFloat(-37)
    /\ result = PInt(-3)

\* The cleaned value of a field of the features given to a composer.
FieldText(key) == SafeClean(Get(args.features, key))

\* C17 as stated: the size block of a successful build_jean_levis_description
\* starts with "Taille <US> US (\'equivalent <FR> FR)" (with U+00E9) when both
\* sizes are present, with "Taille <FR> FR" or "Taille <US> US" when one is, and
\* ends with the closing clause; with neither size it is "Taille non
\* pr\'ecis\'ee." (with U+00E9).
C17_AsStated ==
    Composed("build_jean_levis_description") =>
        LET us == FieldText("size_us")
            fr == FieldText("size_fr")
        IN  /\ (us # <<>> /\ fr # <<>>) =>
                  StartsWith(Block(2), Str("Taille ") \o us \o Str(" US ({E9}quivalent ")
                                           \o fr \o Str(" FR),"))
            /\ (us # <<>> /\ fr = <<>>) =>
                  StartsWith(Block(2), Str("Taille ") \o us \o Str(" US,"))
            /\ (us = <<>> /\ fr # <<>>) =>
                  StartsWith(Block(2), Str("Taille ") \o fr \o Str(" FR,"))
            /\ (us # <<>> \/ fr # <<>>) =>
                  EndsWith(Block(2), Str(", pour une silhouette ajust{E9}e et confortable."))
            /\ (us = <<>> /\ fr = <<>>) => Block(2) = Str("Taille non pr{E9}cis{E9}e.")

\* C18 as stated: the color block of a successful build_jean_levis_description
\* is "Coloris <color>" followed directly by the comma of the fixed tail when
\* the color holds the fade marker "lav\'e", "Coloris <color> l\'eg\`erement
\* d\'elav\'e," when it does not, and the color-unspecified sentence when the
\* color is absent (accents as U+00E9 and U+00E8).
C18_AsStated ==
    Composed("build_jean_levis_description") =>
        LET color == FieldText("color")
            faded == Contains(Lower(color), Str("lav{E9}"))
        IN  /\ (color # <<>> /\ faded) =>
                  StartsWith(Block(3), Str("Coloris ") \o color \o Str(","))
            /\ (color # <<>> /\ ~faded) =>
                  StartsWith(Block(3), Str("Coloris ") \o color
                                           \o Str(" l{E9}g{E8}rement d{E9}lav{E9},"))
            /\ color = <<>> =>
                  Block(3) = Str("Coloris non pr{E9}cis{E9}, se r{E9}f{E9}rer aux photos pour les nuances.")

C19_Composers == {"build_jean_levis_description", "build_pull_tommy_description"}
\* The state sentence of the output: the lines from the first one that opens
\* with the words of the state sentence to the one before the logistics
\* sentence, and before the blank line in front of it in a denim description.
C19_StateLines(lines, logistics, gap) ==
    SubSeq(lines,
           SetMin({i \in 1..Len(lines) : StartsWith(lines[i], TRES_BON_ETAT)}),
           SetMax({i \in 1..Len(lines) : lines[i] = logistics}) - gap)
C19_StateText ==
    Join(IF call = "build_jean_levis_description"
         THEN C19_StateLines(OutLines, LOGISTICS, 2)
         ELSE C19_StateLines(OutLines, PULL_LOGISTICS, 1), Str("\n"))
\* The state sentence as the output shows it when it is built from defects: the
\* footer filter drops the lines of it that start with a footer label.
C19_StateFrom(defects) == StripFooterLines(BuildStateSentence(defects))

\* C19 as stated: the state sentence is built from ai_defects whenever
\* ai_defects is provided (is not None), and from features.defects otherwise.
C19_AsStated ==
    \A name \in C19_Composers :
        Composed(name) =>
            C19_StateText =
                C19_StateFrom(IF args.ai_defects # None THEN args.ai_defects
                              ELSE Get(args.features, "defects"))

\* C19: in both composers the state sentence is built from ai_defects whenever
\* ai_defects is non-empty, and from features.defects when ai_defects is None or
\* the empty string; the two are never combined.
C19_AiDefectsFirst ==
    \A name \in C19_Composers :
        Composed(name) =>
            C19_StateText =
                C19_StateFrom(IF Truthy(args.ai_defects) THEN args.ai_defects
                              ELSE Get(args.features, "defects"))

\* C19 witness: the denim composer was given ai_defects "Accroc, voir photos"
\* and features.defects "Petite tache"; the state block names the accroc and
\* not the tache.
C19_Witness ==
    /\ Composed("build_jean_levis_description")
    /\ args.ai_defects = PStr(Str("Accroc, voir photos"))
    /\ Get(args.features, "defects") = PStr(Str("Petite tache"))
    /\ Contains(Block(6), Str("accroc"))
    /\ ~Contains(Lower(result.s), Str("tache"))

\* A line whose trimmed, lower-cased text starts with a footer label.
C20_IsFooter(line) ==
    \E label \in {Str("marque :"), Str("couleur :"), Str("sku")} :
        StartsWith(Lower(Strip(line)), label)
C20_NoFooterLine == \A i \in 1..Len(OutLines) : ~C20_IsFooter(OutLines[i])

\* C20 as stated: every string returned by either composer, on the successful
\* path and on the fallback path alike, has no line that starts, trimmed and
\* lower-cased, with "marque :", "couleur :" or "sku".
C20_AsStated ==
    (call \in C19_Composers /\ result.t = "str") => C20_NoFooterLine

\* C20: every string returned by either composer on the successful path
\* (features is a mapping) has no line that starts, trimmed and lower-cased, with
\* "marque :", "couleur :" or "sku"; the fallback path returns the cleaned
\* ai_description with its lines unfiltered.
C20_SuccessPath ==
    /\ \A name \in C19_Composers : Composed(name) => C20_NoFooterLine
    /\ (call \in C19_Composers /\ ~IsMapping(args.features)) =>
          result = PStr(SafeClean(args.ai_description))

\* C20 witness: the knitwear composer was given ai_defects "Tache\nSKU 12"; the
\* state line ends with "Tache" and the line "SKU 12 (voir photos)." that the
\* state sentence held is not in the output.
C20_Witness ==
    /\ Composed("build_pull_tommy_description")
    /\ args.ai_defects = PStr(Str("Tache\nSKU 12"))
    /\ EndsWith(OutLines[C13_Head + 2], Str(": Tache"))
    /\ ~Contains(result.s, Str("SKU 12"))
    /\ C20_NoFooterLine

===========================================================================
